---- MODULE Spec2Model ----
(***************************************************************************)
(* Event admission of the homeserver: the federation receive paths of      *)
(* handlers/federation.py and room creation of handlers/room.py, over the  *)
(* event store, the auth rule engine and the state resolver they call.     *)
(***************************************************************************)
EXTENDS Integers, FiniteSets, Sequences, TLC

VARIABLES
    store,          \* persisted event records (the datastore's events table)
    fwd,            \* room_id -> forward extremities (event ids)
    current_state,  \* room_id -> cached resolved state (slot -> event id)
    validated,      \* event ids for which _validate_event has returned True
    last,           \* the last handle_incoming_event call: event id and branch taken
    tasks,          \* concurrent handle_incoming_event calls: event, position, result
    servers,        \* homeservers sharing a room: each one's datastore and state
    resolved,       \* the last call of the state resolver: inputs and output
    client,         \* the client-facing handlers: redactions, txn IDs, last call
    friends         \* the friends handler: its rate limiter and the clock

vars == <<store, fwd, current_state, validated, last, tasks, servers, resolved,
          client, friends>>

(***************************************************************************)
(* Bounds of the model.                                                    *)
(***************************************************************************)
MaxBatch == 2        \* longest event list a backfill or a send_join state carries
MaxLocalRooms == 1   \* rooms create_room makes in one behaviour
MaxLocalEvents == 3  \* events the client-facing handlers create in one behaviour
MaxSends == 2        \* calls of send_friend_request in one behaviour

(***************************************************************************)
(* Identifiers.                                                            *)
(***************************************************************************)
Hostname == "hs"
Servers == {"s1", "s2"}
Alice == "@alice:s1"
Bob == "@bob:s2"
Carol == "@carol:hs"
Dave == "@dave:hs"
Erin == "@erin:hs"
Room1 == "!r:s1"
LocalRoom == "!new:hs"
Rooms == {Room1, LocalRoom}
NoKey == "<none>"    \* the event has no state_key: it is not a state event

RequiredFields == {"event_id", "type", "room_id", "sender", "origin_server_ts"}
AllFields == RequiredFields \cup {"origin"}

(***************************************************************************)
(* Power levels content, as create_room builds it.                         *)
(***************************************************************************)
\* faulty variant: the room name is left at level 0
DefaultEventLevelsNameOpen ==
    "m.room.name" :> 0 @@ "m.room.power_levels" :> 100
    @@ "m.room.history_visibility" :> 100
    @@ "m.room.canonical_alias" :> 50 @@ "m.room.avatar" :> 50
    @@ "m.room.tombstone" :> 100 @@ "m.room.server_acl" :> 100
    @@ "m.room.encryption" :> 100

\* content["events"]
DefaultEventLevels ==
    "m.room.name" :> 50 @@ "m.room.power_levels" :> 100
    @@ "m.room.history_visibility" :> 100
    @@ "m.room.canonical_alias" :> 50 @@ "m.room.avatar" :> 50
    @@ "m.room.tombstone" :> 100 @@ "m.room.server_acl" :> 100
    @@ "m.room.encryption" :> 100

DefaultPowerLevels(creator) ==
    [ ban |-> 50,
      events |-> DefaultEventLevels,
      events_default |-> 0,
      invite |-> 50,
      kick |-> 50,
      redact |-> 50,
      state_default |-> 50,
      users |-> (creator :> 100),
      users_default |-> 0,
      notifications |-> [room |-> 50] ]

\* content.update(override_content): a shallow update of the top-level keys
OverridePowerLevels(content, override) ==
    [k \in DOMAIN content |->
        IF k \in DOMAIN override THEN override[k] ELSE content[k]]

(***************************************************************************)
(* Events.  present is the set of fields the event dict carries.           *)
(***************************************************************************)
Event(id, room, sender, type, sk, content, prevs, auths, depth, origin) ==
    [ event_id |-> id, room_id |-> room, sender |-> sender, type |-> type,
      state_key |-> sk, content |-> content, prev_events |-> prevs,
      auth_events |-> auths, depth |-> depth, origin |-> origin,
      present |-> AllFields ]

Member(m) == [membership |-> m]

\* The room !r:s1 as its servers send it: creation, an invite and a join, a
\* power levels change, two conflicting topics, a ban racing a message, and
\* events that do not pass the checks.
EvCreate == Event("$01c", Room1, Alice, "m.room.create", "",
                  [creator |-> Alice], {}, {}, 1, "s1")
EvJoinA == Event("$02ja", Room1, Alice, "m.room.member", Alice,
                 Member("join"), {"$01c"}, {"$01c"}, 2, "s1")
EvPower == Event("$03pl", Room1, Alice, "m.room.power_levels", "",
                 DefaultPowerLevels(Alice), {"$02ja"}, {"$01c", "$02ja"}, 3, "s1")
EvInvite == Event("$04iv", Room1, Alice, "m.room.member", Bob,
                  Member("invite"), {"$03pl"}, {"$01c", "$02ja", "$03pl"}, 4, "s1")
EvJoinB == Event("$05jb", Room1, Bob, "m.room.member", Bob,
                 Member("join"), {"$04iv"}, {"$01c", "$03pl", "$04iv"}, 5, "s2")
EvName == Event("$06nb", Room1, Bob, "m.room.name", "",
                [name |-> "n"], {"$05jb"}, {"$01c", "$03pl", "$05jb"}, 6, "s2")
EvPower2 == Event("$06pl", Room1, Alice, "m.room.power_levels", "",
                  OverridePowerLevels(DefaultPowerLevels(Alice),
                      [users |-> (Alice :> 100 @@ Bob :> 50)]),
                  {"$05jb"}, {"$01c", "$02ja", "$03pl"}, 6, "s1")
EvTopicA == Event("$07ta", Room1, Alice, "m.room.topic", "",
                  [topic |-> "A"], {"$06pl"}, {"$01c", "$02ja", "$06pl"}, 7, "s1")
EvTopicB == Event("$07tb", Room1, Bob, "m.room.topic", "",
                  [topic |-> "B"], {"$06pl"}, {"$01c", "$05jb", "$06pl"}, 7, "s2")
\* a second topic by Alice, on the same parent as EvTopicA
EvTopicC == Event("$07tc", Room1, Alice, "m.room.topic", "",
                  [topic |-> "C"], {"$06pl"}, {"$01c", "$02ja", "$06pl"}, 7, "s1")
EvMsgB == Event("$07mb", Room1, Bob, "m.room.message", NoKey,
                [body |-> "hi"], {"$06pl"}, {"$01c", "$05jb", "$06pl"}, 7, "s2")
EvBanB == Event("$07kb", Room1, Alice, "m.room.member", Bob,
                Member("ban"), {"$06pl"}, {"$01c", "$02ja", "$06pl", "$05jb"}, 7, "s1")
EvMerge == Event("$08mm", Room1, Bob, "m.room.message", NoKey,
                 [body |-> "yo"], {"$07mb", "$07kb"},
                 {"$01c", "$05jb", "$06pl"}, 8, "s2")
\* the ID of EvMerge over a different content
EvMergeAltered == [EvMerge EXCEPT !.content = [body |-> "oy"]]
\* an event dict without its sender
EvNoSender == [Event("$09xm", Room1, Alice, "m.room.message", NoKey,
                     [body |-> "x"], {"$06pl"}, {"$01c", "$02ja", "$06pl"}, 7, "s1")
               EXCEPT !.present = AllFields \ {"sender"}]

\* The room create_room makes on this server.
EvLCreate == Event("$l1c", LocalRoom, Carol, "m.room.create", "",
                   [creator |-> Carol], {}, {}, 1, Hostname)
EvLJoin == Event("$l2j", LocalRoom, Carol, "m.room.member", Carol,
                 Member("join"), {"$l1c"}, {"$l1c"}, 2, Hostname)
EvLPower == Event("$l3p", LocalRoom, Carol, "m.room.power_levels", "",
                  DefaultPowerLevels(Carol), {"$l2j"}, {"$l1c", "$l2j"}, 3, Hostname)

RemoteEvents == {EvCreate, EvJoinA, EvPower, EvInvite, EvJoinB, EvName, EvPower2,
                 EvTopicA, EvTopicB, EvMsgB, EvBanB, EvMerge, EvNoSender}
\* what remote servers deliver
Deliveries == RemoteEvents \cup {EvMergeAltered}
LocalEvents == {EvLCreate, EvLJoin, EvLPower}
AllEvents == RemoteEvents \cup LocalEvents \cup {EvTopicC}
EventById(id) == CHOOSE e \in AllEvents : e.event_id = id

(***************************************************************************)
(* Event IDs in lexicographic order (the order of the strings).            *)
(***************************************************************************)
IdOrder == <<"$01c", "$02ja", "$03pl", "$04iv", "$05jb", "$06nb", "$06pl",
             "$07kb", "$07mb", "$07no", "$07ta", "$07tb", "$07tc", "$08mm", "$09xm",
             "$d3iv", "$d4jb", "$d5ic", "$d5ka", "$d5kb", "$d5mb", "$d5na", "$d5nb",
             "$l1c", "$l2j", "$l3p", "$m1", "$m2", "$m3", "$m4", "$m5", "01c">>
IdRank(id) == CHOOSE i \in 1..Len(IdOrder) : IdOrder[i] = id

(***************************************************************************)
(* EventStore: write-once records keyed by event ID.                       *)
(***************************************************************************)
StoredIds(st) == {e.event_id : e \in st}
Lookup(st, id) == CHOOSE e \in st : e.event_id = id
Known(st, ids) == {e \in st : e.event_id \in ids}
\* get_event_by_id: the stored record, or none
GetEventById(st, id) == {e \in st : e.event_id = id}
\* Persist: storing an ID that is already there is a no-op success
Persist(st, e) == IF e.event_id \in StoredIds(st) THEN st ELSE st \cup {e}

(***************************************************************************)
(* Room state: a function from slots <<type, state_key>> to event IDs.     *)
(***************************************************************************)
Slot(e) == <<e.type, e.state_key>>
IsState(e) == e.state_key # NoKey
EmptyState == [s \in {} |-> ""]
CreateSlot == <<"m.room.create", "">>
PowerSlot == <<"m.room.power_levels", "">>
JoinRulesSlot == <<"m.room.join_rules", "">>
MemberSlot(u) == <<"m.room.member", u>>

(***************************************************************************)
(* AuthRuleEngine: Authorize(event, state), a pure function.               *)
(***************************************************************************)
\* faulty variant: the invite level of the content create_room writes
HardcodedPowerLevelsAsCreated ==
    [ ban |-> 50, kick |-> 50, redact |-> 50, invite |-> 50,
      state_default |-> 50, events_default |-> 0, users_default |-> 0,
      events |-> [t \in {} |-> 0], users |-> [u \in {} |-> 0] ]

HardcodedPowerLevels ==
    [ ban |-> 50, kick |-> 50, redact |-> 50, invite |-> 0,
      state_default |-> 50, events_default |-> 0, users_default |-> 0,
      events |-> [t \in {} |-> 0], users |-> [u \in {} |-> 0] ]

HasPower(state) == PowerSlot \in DOMAIN state
PowerContent(state, st) ==
    IF HasPower(state) THEN Lookup(st, state[PowerSlot]).content
    ELSE HardcodedPowerLevels
Creator(state, st) == Lookup(st, state[CreateSlot]).content.creator

UserLevel(state, st, u) ==
    LET pl == PowerContent(state, st) IN
    IF u \in DOMAIN pl.users THEN pl.users[u]
    ELSE IF ~HasPower(state) /\ CreateSlot \in DOMAIN state /\ u = Creator(state, st)
    THEN 100
    ELSE pl.users_default

RequiredLevel(e, pl) ==
    IF e.type \in DOMAIN pl.events THEN pl.events[e.type]
    ELSE IF IsState(e) THEN pl.state_default
    ELSE pl.events_default

MembershipOf(state, st, u) ==
    IF MemberSlot(u) \in DOMAIN state
    THEN Lookup(st, state[MemberSlot(u)]).content.membership
    ELSE "none"

JoinRule(state, st) ==
    IF JoinRulesSlot \in DOMAIN state
    THEN Lookup(st, state[JoinRulesSlot]).content.join_rule
    ELSE "invite"

\* rule 4: the checks of an m.room.member event
MembershipRule(e, state, st) ==
    LET target == e.state_key
        m == e.content.membership
        cur == MembershipOf(state, st, target)
        pl == PowerContent(state, st)
        joined == MembershipOf(state, st, e.sender) = "join"
        level == UserLevel(state, st, e.sender)
        above == level > UserLevel(state, st, target)
    IN  CASE m = "join" ->
                /\ e.sender = target
                /\ cur # "ban"
                /\ \/ DOMAIN state = {CreateSlot} /\ Creator(state, st) = target
                   \/ cur \in {"join", "invite"}
                   \/ JoinRule(state, st) = "public"
          [] m = "invite" ->
                joined /\ cur \notin {"join", "ban"} /\ level >= pl.invite
          [] m = "knock" ->
                /\ e.sender = target
                /\ JoinRule(state, st) = "knock"
                /\ cur \notin {"join", "ban", "invite"}
          [] m = "leave" ->
                IF e.sender = target THEN cur = "join"
                ELSE joined /\ level >= pl.kick /\ above
          [] m = "ban" -> joined /\ level >= pl.ban /\ above
          [] OTHER -> FALSE

Authorize(e, state, st) ==
    IF e.type = "m.room.create"
    THEN IF e.prev_events = {} THEN "Allowed" ELSE "Unauthorized"
    ELSE IF CreateSlot \notin DOMAIN state THEN "MissingCreateEvent"
    ELSE IF e.type = "m.room.member"
    THEN IF MembershipRule(e, state, st) THEN "Allowed" ELSE "Unauthorized"
    ELSE IF MembershipOf(state, st, e.sender) # "join" THEN "Unauthorized"
    ELSE IF e.type = "m.room.redaction" THEN "Allowed"
    ELSE IF UserLevel(state, st, e.sender) < RequiredLevel(e, PowerContent(state, st))
    THEN "Unauthorized"
    ELSE "Allowed"

(***************************************************************************)
(* StateResolver: Resolve(stateSets), stateSets a sequence of states.      *)
(***************************************************************************)
RECURSIVE SeqById(_)
\* the IDs of a set as a sequence, in lexicographic order
SeqById(ids) ==
    IF ids = {} THEN <<>>
    ELSE LET m == CHOOSE x \in ids : \A y \in ids : IdRank(x) <= IdRank(y)
         IN  <<m>> \o SeqById(ids \ {m})

Range(seq) == {seq[i] : i \in 1..Len(seq)}

RECURSIVE Dedup(_)
\* a sequence without its repeated elements, first occurrences kept
Dedup(seq) ==
    IF seq = <<>> THEN <<>>
    ELSE LET front == Dedup(SubSeq(seq, 1, Len(seq) - 1))
             x == seq[Len(seq)]
         IN  IF x \in Range(front) THEN front ELSE Append(front, x)

RECURSIVE AuthChainFrom(_, _, _)
AuthChainFrom(st, frontier, acc) ==
    LET new == UNION {e.auth_events \cap StoredIds(st) : e \in Known(st, frontier)} \ acc
    IN  IF new = {} THEN acc ELSE AuthChainFrom(st, new, acc \cup new)
\* the events reachable from id over auth_events
AuthChain(st, id) == AuthChainFrom(st, {id}, {})

\* step 1: the slots on which all input state sets agree
UnconflictedSlots(stateSets) ==
    {s \in UNION {DOMAIN stateSets[i] : i \in 1..Len(stateSets)} :
        \A i \in 1..Len(stateSets) :
            s \in DOMAIN stateSets[i] /\ stateSets[i][s] = stateSets[1][s]}
ConflictedSlots(stateSets) ==
    UNION {DOMAIN stateSets[i] : i \in 1..Len(stateSets)} \ UnconflictedSlots(stateSets)
ConflictedEvents(stateSets) ==
    {stateSets[i][s] : <<i, s>> \in
        {p \in (1..Len(stateSets)) \X ConflictedSlots(stateSets) :
            p[2] \in DOMAIN stateSets[p[1]]}}

\* step 3: auth events reachable from a conflicting event, not common to all
AuthDifference(st, ids) ==
    IF ids = {} THEN {}
    ELSE UNION {AuthChain(st, i) : i \in ids}
         \ {a \in StoredIds(st) : \A i \in ids : a \in AuthChain(st, i)}

\* the conflicted event set, in the order the inputs give it
ConflictedSeq(st, stateSets) ==
    LET slots == ConflictedSlots(stateSets)
        ofSet(i) == SeqById({stateSets[i][s] : s \in slots \cap DOMAIN stateSets[i]})
        RECURSIVE upTo(_)
        upTo(i) == IF i = 0 THEN <<>> ELSE upTo(i - 1) \o ofSet(i)
        diff == {a \in AuthDifference(st, ConflictedEvents(stateSets)) :
                    Slot(Lookup(st, a)) \in slots}
    IN  Dedup(upTo(Len(stateSets)) \o SeqById(diff))

\* the sender's power level as of the event's own auth events
AuthState(st, e) ==
    LET auth == {a \in Known(st, e.auth_events) : IsState(a)}
        slots == {Slot(a) : a \in auth}
    IN  [s \in slots |->
            (CHOOSE a \in auth : Slot(a) = s /\
                \A b \in auth : Slot(b) = s => IdRank(b.event_id) <= IdRank(a.event_id)).event_id]
SenderPower(st, id) ==
    LET e == Lookup(st, id) IN UserLevel(AuthState(st, e), st, e.sender)

\* faulty variant: no tie-break on the event ID
SortKeyLessPowerOnly(st, a, b) == SenderPower(st, a) < SenderPower(st, b)

\* step 4, the tie-break among independent events: the higher power level
\* prevails (is replayed later), then the event ID decides
SortKeyLess(st, a, b) ==
    \/ SenderPower(st, a) < SenderPower(st, b)
    \/ SenderPower(st, a) = SenderPower(st, b) /\ IdRank(a) < IdRank(b)

\* faulty variant: the conflicted events are replayed in the order given
TopoOrderUnsorted(st, pending) == pending

RECURSIVE TopoOrder(_, _)
\* step 4: no event before one it depends on; a stable choice among the rest
TopoOrder(st, pending) ==
    IF pending = <<>> THEN <<>>
    ELSE LET ids == Range(pending)
             ready == {i \in 1..Len(pending) : AuthChain(st, pending[i]) \cap ids = {}}
             pick == CHOOSE i \in ready :
                        /\ \A j \in ready : ~SortKeyLess(st, pending[j], pending[i])
                        /\ \A j \in ready : j < i => SortKeyLess(st, pending[j], pending[i])
                                                     \/ SortKeyLess(st, pending[i], pending[j])
             rest == [k \in 1..(Len(pending) - 1) |->
                        IF k < pick THEN pending[k] ELSE pending[k + 1]]
         IN  <<pending[pick]>> \o TopoOrder(st, rest)

RECURSIVE Replay(_, _, _)
\* step 5: accept an event only if it authorizes against the state so far
Replay(st, order, working) ==
    IF order = <<>> THEN working
    ELSE LET e == Lookup(st, order[1])
             next == IF Authorize(e, working, st) = "Allowed"
                     THEN (Slot(e) :> e.event_id) @@ working
                     ELSE working
         IN  Replay(st, Tail(order), next)

\* faulty variant: the replay starts from the empty state, the unconflicted
\* slots are dropped when a slot is conflicted
ResolveFromEmpty(st, stateSets) ==
    IF Len(stateSets) = 0 THEN EmptyState
    ELSE IF Len(stateSets) = 1 THEN stateSets[1]
    ELSE LET unconflicted == [s \in UnconflictedSlots(stateSets) |-> stateSets[1][s]]
         IN  IF ConflictedSlots(stateSets) = {} THEN unconflicted
             ELSE Replay(st, TopoOrder(st, ConflictedSeq(st, stateSets)), EmptyState)

Resolve(st, stateSets) ==
    IF Len(stateSets) = 0 THEN EmptyState
    ELSE IF Len(stateSets) = 1 THEN stateSets[1]
    ELSE LET unconflicted == [s \in UnconflictedSlots(stateSets) |-> stateSets[1][s]]
         IN  IF ConflictedSlots(stateSets) = {} THEN unconflicted
             ELSE Replay(st, TopoOrder(st, ConflictedSeq(st, stateSets)), unconflicted)

RECURSIVE StateAfter(_, _)
\* the state as of event e: the state resolved at its known parents, with e
\* in its slot when e is a state event
StateAfter(st, e) ==
    LET parents == SeqById(e.prev_events \cap StoredIds(st))
        atParents == Resolve(st, [i \in 1..Len(parents) |->
                                    StateAfter(st, Lookup(st, parents[i]))])
    IN  IF IsState(e) THEN (Slot(e) :> e.event_id) @@ atParents ELSE atParents

StateAtParents(st, e) ==
    LET parents == SeqById(e.prev_events \cap StoredIds(st))
    IN  Resolve(st, [i \in 1..Len(parents) |-> StateAfter(st, Lookup(st, parents[i]))])

(***************************************************************************)
(* The datastore's store_event: persist, then update the room's forward    *)
(* extremities; the cached current state is refreshed by the caller.       *)
(***************************************************************************)
\* faulty variant: the new event becomes the only extremity
NewExtremitiesOnlyNew(heads, e) == {e.event_id}

NewExtremities(heads, e) == (heads \ e.prev_events) \cup {e.event_id}

\* db is the datastore: [store, fwd]
StoreEvent(db, e) ==
    IF e.event_id \in StoredIds(db.store) THEN db
    ELSE [store |-> db.store \cup {e},
          fwd |-> [db.fwd EXCEPT ![e.room_id] = NewExtremities(@, e)]]

\* the orders in which a set of event IDs may be enumerated: ascending or
\* descending (all the orders of a set of two)
Reverse(seq) == [i \in 1..Len(seq) |-> seq[Len(seq) + 1 - i]]
Orders(S) == {SeqById(S), Reverse(SeqById(S))}

\* the states the resolver can return for a room's extremities, one for
\* each order in which the extremity set may be enumerated
RefreshedStates(db, r) ==
    {Resolve(db.store, [i \in 1..Len(o) |-> StateAfter(db.store, Lookup(db.store, o[i]))]) :
        o \in Orders(db.fwd[r])}

\* faulty variant: the cache is filled once per room and served from then on
RefreshOnce(old, new) ==
    LET options(r) == IF current_state[r] # EmptyState \/ new.fwd[r] = old.fwd[r]
                      THEN {current_state[r]}
                      ELSE RefreshedStates(new, r)
    IN  current_state' \in
            {cs \in [Rooms -> UNION {options(r) : r \in Rooms}] :
                \A r \in Rooms : cs[r] \in options(r)}

\* the cache after the datastore went from old to new
Refresh(old, new) ==
    LET options(r) == IF new.fwd[r] = old.fwd[r] THEN {current_state[r]}
                      ELSE RefreshedStates(new, r)
    IN  current_state' \in
            {cs \in [Rooms -> UNION {options(r) : r \in Rooms}] :
                \A r \in Rooms : cs[r] \in options(r)}

(***************************************************************************)
(* FederationHandler.                                                      *)
(***************************************************************************)
None == "<None>"
EventGet(e, field) == IF field \in e.present THEN e[field] ELSE None

\* event_auth.check_auth_rules_for_event: the event against the state at its parents
CheckAuthRulesForEvent(st, e) ==
    \E state \in {StateAtParents(st, e)} : Authorize(e, state, st) = "Allowed"

\* faulty variant: the answer of the auth check is not looked at
ValidateEventFieldsOnly(st, e) == \A f \in RequiredFields : f \in e.present

ValidateEvent(st, e) ==
    /\ \A f \in RequiredFields : f \in e.present
    /\ CheckAuthRulesForEvent(st, e)

\* faulty variant: the event's origin field is not compared with the sender
HandleOutcomeAnyOrigin(st, origin, e) ==
    IF ~ValidateEvent(st, e) THEN "invalid"
    ELSE IF GetEventById(st, e.event_id) # {} THEN "already_processed"
    ELSE "stored"

\* the branch handle_incoming_event takes
HandleOutcome(st, origin, e) ==
    IF EventGet(e, "origin") # origin THEN "origin_mismatch"
    ELSE IF ~ValidateEvent(st, e) THEN "invalid"
    ELSE IF GetEventById(st, e.event_id) # {} THEN "already_processed"
    ELSE "stored"

\* faulty variant: an event that fails validation is reported as a success
HandleReturnInvalidToo(outcome) == outcome \in {"invalid", "already_processed", "stored"}

\* faulty variant: a redelivered event is reported as a failure
HandleReturnStoredOnly(outcome) == outcome = "stored"

HandleReturn(outcome) == outcome \in {"already_processed", "stored"}

NoCall == [ev |-> None, outcome |-> None]
DB == [store |-> store, fwd |-> fwd]

Commit(new) ==
    /\ store' = new.store
    /\ fwd' = new.fwd
    /\ Refresh(DB, new)

handle_incoming_event(origin, e) ==
    \E outcome \in {HandleOutcome(store, origin, e)} :
    /\ last' = [ev |-> e.event_id, outcome |-> outcome]
    /\ validated' = IF outcome \in {"already_processed", "stored"}
                    THEN validated \cup {e.event_id} ELSE validated
    /\ Commit(IF outcome = "stored" THEN StoreEvent(DB, e) ELSE DB)
    /\ UNCHANGED <<tasks, servers, resolved, client, friends>>

\* faulty variant: the loops store every event they are given
LoopAcceptsAll(st, e) == TRUE

\* the test that guards store_event in the loops of backfill_events and
\* _store_room_state
LoopAccepts(st, e) == ValidateEvent(st, e)

RECURSIVE StoreValidated(_, _)
\* for event in events: if await self._validate_event(event): store_event(event)
\* acc is [store, fwd, valid]: valid collects the IDs _validate_event passed
StoreValidated(acc, events) ==
    IF Len(events) = 0 THEN acc
    ELSE LET e == events[1]
             db == [store |-> acc.store, fwd |-> acc.fwd]
             step(accepts, valid) ==
                 [store |-> IF accepts THEN StoreEvent(db, e).store ELSE acc.store,
                  fwd |-> IF accepts THEN StoreEvent(db, e).fwd ELSE acc.fwd,
                  valid |-> IF valid THEN acc.valid \cup {e.event_id} ELSE acc.valid]
         IN  StoreValidated(step(LoopAccepts(acc.store, e), ValidateEvent(acc.store, e)),
                            SubSeq(events, 2, Len(events)))

\* the event lists a remote server answers with
BatchEvents == {EvCreate, EvJoinA, EvPower, EvMerge}
Batches == UNION {[1..n -> BatchEvents] : n \in 0..MaxBatch}

backfill_events(events) ==
    \E acc \in {StoreValidated([store |-> store, fwd |-> fwd, valid |-> validated], events)} :
    /\ Commit([store |-> acc.store, fwd |-> acc.fwd])
    /\ validated' = acc.valid
    /\ last' = NoCall
    /\ UNCHANGED <<tasks, servers, resolved, client, friends>>

\* _store_room_state, as join_room_via_federation calls it on a send_join answer
store_room_state(state_events) ==
    \E acc \in {StoreValidated([store |-> store, fwd |-> fwd, valid |-> validated],
                                 state_events)} :
    /\ Commit([store |-> acc.store, fwd |-> acc.fwd])
    /\ validated' = acc.valid
    /\ last' = NoCall
    /\ UNCHANGED <<tasks, servers, resolved, client, friends>>

(***************************************************************************)
(* RoomHandler.create_room: the creation, join and power levels events,    *)
(* stored in this order.                                                   *)
(***************************************************************************)
\* faulty variant: the creation event is never stored
create_room_without_creation ==
    /\ Cardinality({e \in store : e.type = "m.room.create" /\ e.origin = Hostname})
          < MaxLocalRooms
    /\ Commit(StoreEvent(StoreEvent(DB, EvLJoin), EvLPower))
    /\ UNCHANGED validated
    /\ last' = NoCall
    /\ UNCHANGED <<tasks, servers, resolved, client, friends>>

create_room ==
    /\ Cardinality({e \in store : e.type = "m.room.create" /\ e.origin = Hostname})
          < MaxLocalRooms
    /\ Commit(StoreEvent(StoreEvent(StoreEvent(DB, EvLCreate), EvLJoin), EvLPower))
    /\ UNCHANGED validated
    /\ last' = NoCall
    /\ UNCHANGED <<tasks, servers, resolved, client, friends>>

(***************************************************************************)
(* The homeserver from start-up: sequential calls of the handlers.         *)
(***************************************************************************)
Procs == {"t1", "t2"}
NoTask == [ev |-> None, pc |-> "idle", ok |-> FALSE]
NoServer == [store |-> {}, fwd |-> [r \in Rooms |-> {}], state |-> EmptyState]
NoResolve == [inputs |-> <<>>, output |-> EmptyState]
ClientCall(op, u, arg, result) ==
    [op |-> op, user |-> u, arg |-> arg, result |-> result]
NoClient == [redacted |-> {}, txns |-> {}, users |-> {},
             devices |-> {}, access_tokens |-> {}, device_keys |-> {},
             call |-> ClientCall("<None>", "<None>", "<None>", "<None>")]

\* FriendsHandler.__init__: the rate limiter of friend requests
max_requests_per_hour == 10
rate_limit_window == 3600
FriendUsers == {Carol, Dave}
\* the readings of time.time(), in seconds: either side of the window's edge
Times == {0, 3599, 3600}
\* rate_limit_cache: per user, the timestamps of the recorded requests; admitted
\* counts, per user and reading of the clock, the calls that returned; call is
\* the last call and the code of the SynapseError it raised, 0 when it returned
\* friend_requests, user_friendships and user_blocks are the tables of the
\* friends store; op is the last call of a public operation and the code of
\* the error it raised, 0 when it returned; coros are the
\* calls of the handler that are suspended at an await
FriendOp(name, raised) == [name |-> name, raised |-> raised]
NoCoro == [pc |-> "idle", user |-> "<None>", target |-> "<None>", request_id |-> "<None>",
           accept |-> FALSE]
Coros == {"c1", "c2"}
NoFriends ==
    [ now |-> 0,
      rate_limit_cache |-> [u \in FriendUsers |-> <<>>],
      admitted |-> [u \in FriendUsers |-> [t \in Times |-> 0]],
      call |-> [user |-> None, raised |-> 0],
      friend_requests |-> {},
      user_friendships |-> {},
      user_blocks |-> {},
      friends_list_cache |-> {},
      op |-> FriendOp("<None>", 0),
      coros |-> [c \in Coros |-> NoCoro] ]

InitEmpty ==
    /\ store = {}
    /\ fwd = [r \in Rooms |-> {}]
    /\ current_state = [r \in Rooms |-> EmptyState]
    /\ validated = {}
    /\ last = NoCall

\* the handlers other than those of the specification at hand are idle
InitIdle ==
    /\ client = NoClient
    /\ friends = NoFriends

Init ==
    /\ InitEmpty
    /\ InitIdle
    /\ tasks = [p \in Procs |-> NoTask]
    /\ servers = [s \in Servers |-> NoServer]
    /\ resolved = NoResolve

Next ==
    \/ \E origin \in Servers, e \in Deliveries : handle_incoming_event(origin, e)
    \/ \E events \in Batches : backfill_events(events)
    \/ \E events \in Batches : store_room_state(events)
    \/ create_room

Spec == Init /\ [][Next]_vars

(***************************************************************************)
(* Properties of the sequential homeserver (Spec).                         *)
(***************************************************************************)
HasChild(st, id) == \E c \in st : id \in c.prev_events
RoomEvents(st, r) == {e \in st : e.room_id = r}
\* the step is a call handle_incoming_event(origin, e) for some origin
HandleCall(e) == last'.ev = e.event_id

C4_MissingDependency ==
    [][\A e \in RemoteEvents :
          (/\ HandleCall(e)
           /\ ~((e.prev_events \cup e.auth_events) \subseteq StoredIds(store)))
          => /\ ~HandleReturn(last'.outcome)
             /\ store' = store]_vars

C7_ExtremitiesAreChildless ==
    \A r \in Rooms :
        fwd[r] = {e.event_id : e \in {x \in RoomEvents(store, r) :
                                        ~HasChild(store, x.event_id)}}

C9_CreateBootstrap ==
    /\ [][\A e \in RemoteEvents :
             (/\ e.type = "m.room.create"
              /\ e.prev_events = {}
              /\ RoomEvents(store, e.room_id) = {}
              /\ handle_incoming_event(e.origin, e))
             => /\ last'.outcome = "stored"
                /\ current_state'[e.room_id] = (CreateSlot :> e.event_id)]_vars
    /\ [][(RoomEvents(store, LocalRoom) = {} /\ create_room)
             => /\ EvLCreate \in store'
                /\ CreateSlot \in DOMAIN current_state'[LocalRoom]
                /\ current_state'[LocalRoom][CreateSlot] = EvLCreate.event_id]_vars

\* both rooms hold their create event in the create slot
C9_Witness ==
    /\ current_state[Room1] = (CreateSlot :> "$01c")
    /\ last = [ev |-> "$01c", outcome |-> "stored"]
    /\ CreateSlot \in DOMAIN current_state[LocalRoom]

\* C10: in the room whose power levels are the ones create_room writes
\* (m.room.name at 50, users_default 0) and in which Bob is joined without
\* an entry in users, m.room.name requires 50, Bob has 0, and Authorize
\* answers Unauthorized to Bob's m.room.name event.
C10_AuthGating ==
    LET state == current_state[Room1] IN
    (/\ PowerSlot \in DOMAIN state
     /\ state[PowerSlot] = "$03pl"
     /\ MembershipOf(state, store, Bob) = "join")
    => /\ RequiredLevel(EvName, PowerContent(state, store)) = 50
       /\ UserLevel(state, store, EvName.sender) = 0
       /\ Authorize(EvName, state, store) = "Unauthorized"

\* Bob's m.room.name was delivered in that state and refused
C10_Witness ==
    /\ PowerSlot \in DOMAIN current_state[Room1]
    /\ current_state[Room1][PowerSlot] = "$03pl"
    /\ MembershipOf(current_state[Room1], store, Bob) = "join"
    /\ last = [ev |-> "$06nb", outcome |-> "invalid"]

(***************************************************************************)
(* The state resolver on its own: Resolve applied to a growing sequence of *)
(* the states after events of a room's history.                            *)
(***************************************************************************)
MaxStateSets == 3    \* longest sequence of state sets given to Resolve

ResolveStore == {EvCreate, EvJoinA, EvPower, EvInvite, EvJoinB, EvPower2,
                 EvTopicA, EvTopicB, EvTopicC, EvMsgB, EvBanB}
ResolveHeads == {EvJoinB, EvTopicA, EvTopicB, EvTopicC, EvBanB}
StateSets == {StateAfter(ResolveStore, e) : e \in ResolveHeads}

\* one more state set joins the inputs, and Resolve runs on them
resolve(stateSet) ==
    /\ Len(resolved.inputs) < MaxStateSets
    /\ \E stateSets \in {Append(resolved.inputs, stateSet)} :
          resolved' = [inputs |-> stateSets, output |-> Resolve(ResolveStore, stateSets)]
    /\ UNCHANGED <<store, fwd, current_state, validated, last, tasks, servers, client, friends>>

InitResolve == Init
NextResolve == \E stateSet \in StateSets : resolve(stateSet)
SpecResolve == InitResolve /\ [][NextResolve]_vars

Perms(n) == {f \in [1..n -> 1..n] : \A i, j \in 1..n : f[i] = f[j] => i = j}
Permuted(seq, f) == [i \in 1..Len(seq) |-> seq[f[i]]]

\* C2: Resolve returns the same state for every permutation of the sequence
\* of state sets it is given.
C2_ResolveOrderIndependent ==
    \A f \in Perms(Len(resolved.inputs)) :
        Resolve(ResolveStore, Permuted(resolved.inputs, f)) = resolved.output

\* Resolve was called on three state sets that disagree on the topic, two
\* of the candidates coming from the same sender
C2_Witness ==
    /\ resolved.inputs = <<StateAfter(ResolveStore, EvTopicC),
                           StateAfter(ResolveStore, EvTopicB),
                           StateAfter(ResolveStore, EvTopicA)>>
    /\ resolved.output = StateAfter(ResolveStore, EvTopicC)

(***************************************************************************)
(* Two homeservers sharing Room1.  Each admits the events its own users    *)
(* send and receives the other's over federation, through the same         *)
(* validation and store_event.                                             *)
(***************************************************************************)
ForkBase == {EvCreate, EvJoinA, EvPower, EvInvite, EvJoinB}
ForkEvents == {EvPower2, EvTopicA, EvTopicB, EvTopicC, EvMsgB, EvBanB}
TopicSlot == <<"m.room.topic", "">>

\* one call of handle_incoming_event, start to end, on a datastore
AdmitAtomic(db, origin, e) ==
    IF HandleOutcome(db.store, origin, e) = "stored" THEN StoreEvent(db, e) ELSE db

\* server s goes to datastore new; its room state follows its extremities
ServerCommit(s, new) ==
    \E state \in (IF new.fwd = servers[s].fwd THEN {servers[s].state}
                  ELSE RefreshedStates(new, Room1)) :
        /\ servers' = [servers EXCEPT ![s] =
                          [store |-> new.store, fwd |-> new.fwd, state |-> state]]
        /\ UNCHANGED <<store, fwd, current_state, validated, last, tasks, resolved, client, friends>>

\* a user of server s sends e: authorized against the state at its parents
fork_send(s, e) ==
    /\ e.origin = s
    /\ e \notin servers[s].store
    /\ ValidateEvent(servers[s].store, e)
    /\ ServerCommit(s, StoreEvent([store |-> servers[s].store, fwd |-> servers[s].fwd], e))

\* server s receives e from the server it originates at, which has stored it
fork_receive(s, e) ==
    /\ e.origin # s
    /\ e \in servers[e.origin].store
    /\ e \notin servers[s].store
    /\ ServerCommit(s, AdmitAtomic([store |-> servers[s].store, fwd |-> servers[s].fwd],
                                   e.origin, e))

InitFork ==
    /\ InitEmpty
    /\ InitIdle
    /\ tasks = [p \in Procs |-> NoTask]
    /\ resolved = NoResolve
    /\ servers = [s \in Servers |->
                    [store |-> ForkBase,
                     fwd |-> [r \in Rooms |-> IF r = Room1 THEN {"$05jb"} ELSE {}],
                     state |-> StateAfter(ForkBase, EvJoinB)]]

NextFork ==
    \/ \E s \in Servers, e \in ForkEvents : fork_send(s, e)
    \/ \E s \in Servers, e \in ForkEvents : fork_receive(s, e)

SpecFork == InitFork /\ [][NextFork]_vars

\* C3: two servers that hold the same events, among them the two
\* conflicting topic events, each having admitted its own before receiving
\* the other's, hold the same event in the topic slot of their room state.
C3_ForkConvergence ==
    \A s, t \in Servers :
        (/\ {EvTopicA, EvTopicB} \subseteq servers[s].store
         /\ servers[s].store = servers[t].store)
        => /\ TopicSlot \in DOMAIN servers[s].state
           /\ TopicSlot \in DOMAIN servers[t].state
           /\ servers[s].state[TopicSlot] = servers[t].state[TopicSlot]

\* both servers hold just the two topic events as extremities and agree on
\* Alice's
C3_Witness ==
    \A s \in Servers :
        /\ servers[s].fwd[Room1] = {"$07ta", "$07tb"}
        /\ TopicSlot \in DOMAIN servers[s].state
        /\ servers[s].state[TopicSlot] = "$07ta"

(***************************************************************************)
(* Two calls of handle_incoming_event in flight at once.  The coroutine    *)
(* yields at each await: after _validate_event, after get_event_by_id and  *)
(* after store_event; nothing in the handler holds a lock across them.     *)
(* The calls start on a datastore that holds Room1 up to Bob's message.    *)
(***************************************************************************)
ConcStore == {EvCreate, EvJoinA, EvPower, EvInvite, EvJoinB, EvPower2, EvMsgB}
ConcDB == [store |-> ConcStore,
           fwd |-> [r \in Rooms |-> IF r = Room1 THEN {"$07mb"} ELSE {}]]
ConcEvents == {EvBanB, EvMerge, EvTopicA, EvMsgB, EvName}

TaskEvent(p) == EventById(tasks[p].ev)
Finish(p, ok) == tasks' = [tasks EXCEPT ![p] = [@ EXCEPT !.pc = "done", !.ok = ok]]
Goto(p, pc) == tasks' = [tasks EXCEPT ![p] = [@ EXCEPT !.pc = pc]]

\* the origin check and await self._validate_event(event)
conc_validate(p) ==
    /\ tasks[p].pc = "validate"
    /\ \E ok \in {/\ EventGet(TaskEvent(p), "origin") = TaskEvent(p).origin
                  /\ ValidateEvent(store, TaskEvent(p))} :
          /\ IF ok THEN Goto(p, "lookup") ELSE Finish(p, FALSE)
          /\ validated' = IF ok THEN validated \cup {tasks[p].ev} ELSE validated
    /\ UNCHANGED <<store, fwd, current_state, last, servers, resolved, client, friends>>

\* await self.store.get_event_by_id(event["event_id"])
conc_lookup(p) ==
    /\ tasks[p].pc = "lookup"
    /\ IF GetEventById(store, tasks[p].ev) # {} THEN Finish(p, TRUE) ELSE Goto(p, "store")
    /\ UNCHANGED <<store, fwd, current_state, validated, last, servers, resolved, client, friends>>

\* await self.store.store_event(event)
conc_store(p) ==
    /\ tasks[p].pc = "store"
    /\ Commit(StoreEvent(DB, TaskEvent(p)))
    /\ Finish(p, TRUE)
    /\ UNCHANGED <<validated, last, servers, resolved, client, friends>>

InitConc ==
    /\ store = ConcDB.store
    /\ fwd = ConcDB.fwd
    /\ current_state = [r \in Rooms |-> IF r = Room1 THEN StateAfter(ConcStore, EvMsgB)
                                        ELSE EmptyState]
    /\ validated = StoredIds(ConcStore)
    /\ last = NoCall
    /\ InitIdle
    /\ tasks \in [Procs -> {[ev |-> e.event_id, pc |-> "validate", ok |-> FALSE] :
                              e \in ConcEvents}]
    /\ servers = [s \in Servers |-> NoServer]
    /\ resolved = NoResolve

NextConc ==
    \/ \E p \in Procs : conc_validate(p)
    \/ \E p \in Procs : conc_lookup(p)
    \/ \E p \in Procs : conc_store(p)

SpecConc == InitConc /\ [][NextConc]_vars

RECURSIVE SerialRun(_, _)
\* the datastore after the calls on the events of evs ran one after another
SerialRun(db, evs) ==
    IF Len(evs) = 0 THEN db
    ELSE SerialRun(AdmitAtomic(db, evs[1].origin, evs[1]), SubSeq(evs, 2, Len(evs)))

\* C6: when both calls have returned, the stored events and the forward
\* extremities are those of the two calls run one after the other, in one
\* of the two orders.
C6_SerializedAdmission ==
    (\A p \in Procs : tasks[p].pc = "done")
    => \E order \in {<<"t1", "t2">>, <<"t2", "t1">>} :
          DB = SerialRun(ConcDB, [i \in 1..2 |-> TaskEvent(order[i])])

(***************************************************************************)
(* The client-facing handlers, RoomHandler and MessageHandler, on the room *)
(* create_room made: Carol is its creator, Dave is a local user nobody     *)
(* invited.                                                                *)
(***************************************************************************)
LocalUsers == {Carol, Dave}
\* _generate_event_id: a fresh ID for every event
LocalIds == <<"$m1", "$m2", "$m3", "$m4", "$m5">>
Created == Cardinality({e \in store : \E i \in 1..Len(LocalIds) : e.event_id = LocalIds[i]})
NextEventId == LocalIds[Created + 1]
Error == "error"

\* the datastore's lookups
GetRoomById(r) == {e \in store : e.room_id = r /\ e.type = "m.room.create"}
GetRoomMembership(u, r) == MembershipOf(current_state[r], store, u)
GetUserPowerLevel(u, r) == UserLevel(current_state[r], store, u)
GetRoomRedactLevel(r) == PowerContent(current_state[r], store).redact
GetEventByTxnId(u, r, txn) ==
    {m \in client.txns : m.sender = u /\ m.room = r /\ m.txn = txn}

\* faulty variant: the new event points at the heads the room had when it
\* was created
CreateEventStaleHeads(id, r, sender, type, sk, content) ==
    LET prevs == {"$l3p"}
        slots == {CreateSlot, PowerSlot, MemberSlot(sender)} \cap DOMAIN current_state[r]
    IN  Event(id, r, sender, type, sk, content, prevs,
              {current_state[r][sl] : sl \in slots}, 4, Hostname)

\* event_builder.create_event: the new event points at the room's forward
\* extremities and cites the create, power-levels and sender's member events
CreateEvent(id, r, sender, type, sk, content) ==
    LET prevs == fwd[r]
        depths == {e.depth : e \in Known(store, prevs)}
        top == IF depths = {} THEN 0 ELSE CHOOSE d \in depths : \A x \in depths : x <= d
        slots == {CreateSlot, PowerSlot, MemberSlot(sender)} \cap DOMAIN current_state[r]
    IN  Event(id, r, sender, type, sk, content, prevs,
              {current_state[r][sl] : sl \in slots}, top + 1, Hostname)

\* one call of a handler: the event it stores, if any, and what it leaves
\* in the handlers' own records
ClientStep(stored, cl) ==
    /\ Created < MaxLocalEvents
    /\ \E new \in {IF stored = {} THEN DB
                   ELSE StoreEvent(DB, CHOOSE e \in stored : TRUE)} : Commit(new)
    /\ client' = cl
    /\ UNCHANGED <<validated, last, tasks, servers, resolved, friends>>

join_room(u) ==
    LET join_event == CreateEvent(NextEventId, LocalRoom, u, "m.room.member", u,
                                  Member("join"))
        raised == GetRoomById(LocalRoom) = {}
        joined == GetRoomMembership(u, LocalRoom) = "join"
    IN  ClientStep(IF raised \/ joined THEN {} ELSE {join_event},
                   [client EXCEPT !.call = ClientCall("join_room", u, u,
                                              IF raised THEN Error ELSE LocalRoom)])

leave_room(u) ==
    LET leave_event == CreateEvent(NextEventId, LocalRoom, u, "m.room.member", u,
                                   Member("leave"))
        raised == GetRoomMembership(u, LocalRoom) # "join"
    IN  ClientStep(IF raised THEN {} ELSE {leave_event},
                   [client EXCEPT !.call = ClientCall("leave_room", u, u,
                                              IF raised THEN Error ELSE LocalRoom)])

invite_user(inviter, invitee) ==
    LET invite_event == CreateEvent(NextEventId, LocalRoom, inviter, "m.room.member",
                                    invitee, Member("invite"))
        raised == \/ GetRoomMembership(inviter, LocalRoom) # "join"
                  \/ GetRoomMembership(invitee, LocalRoom) = "join"
    IN  ClientStep(IF raised THEN {} ELSE {invite_event},
                   [client EXCEPT !.call = ClientCall("invite_user", inviter, invitee,
                                              IF raised THEN Error ELSE LocalRoom)])

send_message(u, txn) ==
    LET existing == GetEventByTxnId(u, LocalRoom, txn)
        event_id == NextEventId
        event == CreateEvent(event_id, LocalRoom, u, "m.room.message", NoKey,
                             [msgtype |-> "m.text", body |-> "hi"])
        mapping == [sender |-> u, room |-> LocalRoom, txn |-> txn, event_id |-> event_id]
        raised == GetRoomMembership(u, LocalRoom) # "join"
        known == txn # None /\ existing # {}
    IN  ClientStep(IF raised \/ known THEN {} ELSE {event},
                   [client EXCEPT
                       !.txns = IF ~raised /\ ~known /\ txn # None
                                THEN @ \cup {mapping} ELSE @,
                       !.call = ClientCall("send_message", u, txn,
                                   IF raised THEN Error
                                   ELSE IF known
                                   THEN (CHOOSE m \in existing : TRUE).event_id
                                   ELSE event_id)])

react_to_message(u, target) ==
    LET event_id == NextEventId
        event == CreateEvent(event_id, LocalRoom, u, "m.reaction", NoKey,
                             [rel_type |-> "m.annotation", event_id |-> target,
                              key |-> "+1"])
        raised == GetEventById(store, target) = {}
    IN  ClientStep(IF raised THEN {} ELSE {event},
                   [client EXCEPT !.call = ClientCall("react_to_message", u, target,
                                              IF raised THEN Error ELSE event_id)])

\* faulty variant: anyone may redact anything
MayRedactAnyone(u, target_event) == TRUE

\* the permission check: one's own message, or the room's redact level
MayRedact(u, target_event) ==
    \/ target_event.sender = u
    \/ ~(GetUserPowerLevel(u, LocalRoom) < GetRoomRedactLevel(LocalRoom))

redact_message(u, target) ==
    LET target_event == GetEventById(store, target)
        event_id == NextEventId
        event == CreateEvent(event_id, LocalRoom, u, "m.room.redaction", NoKey,
                             [redacts |-> target])
        raised == \/ target_event = {}
                  \/ ~MayRedact(u, CHOOSE t \in target_event : TRUE)
    IN  ClientStep(IF raised THEN {} ELSE {event},
                   [client EXCEPT
                       !.redacted = IF raised THEN @
                                    ELSE @ \cup {[event_id |-> target, by |-> event_id]},
                       !.call = ClientCall("redact_message", u, target,
                                   IF raised THEN Error ELSE event_id)])

\* the event IDs a client may name: those of the room, stored or not yet
Targets == {"$l3p"} \cup {LocalIds[i] : i \in 1..MaxLocalEvents}
TxnIds == {None, "txn1"}

InitLocal ==
    /\ store = LocalEvents
    /\ fwd = [r \in Rooms |-> IF r = LocalRoom THEN {"$l3p"} ELSE {}]
    /\ current_state = [r \in Rooms |->
                          IF r = LocalRoom THEN StateAfter(LocalEvents, EvLPower)
                          ELSE EmptyState]
    /\ validated = {}
    /\ last = NoCall
    /\ InitIdle
    /\ tasks = [p \in Procs |-> NoTask]
    /\ servers = [s \in Servers |-> NoServer]
    /\ resolved = NoResolve

NextLocal ==
    \/ \E u \in LocalUsers : join_room(u)
    \/ \E u \in LocalUsers : leave_room(u)
    \/ \E u \in LocalUsers, v \in LocalUsers : invite_user(u, v)
    \/ \E u \in LocalUsers, txn \in TxnIds : send_message(u, txn)
    \/ \E u \in LocalUsers, t \in Targets : react_to_message(u, t)
    \/ \E u \in LocalUsers, t \in Targets : redact_message(u, t)

SpecLocal == InitLocal /\ [][NextLocal]_vars


(***************************************************************************)
(* Further properties of the sequential homeserver (Spec).                 *)
(***************************************************************************)
\* C11: a call of handle_incoming_event, from the event's own origin, on an
\* event whose ID is already stored returns True and leaves the store as it
\* was, whether or not the event passes _validate_event at that time.
C11_RedeliveryAccepted ==
    [][\A e \in RemoteEvents :
          (/\ HandleCall(e)
           /\ last'.outcome # "origin_mismatch"
           /\ e.event_id \in StoredIds(store))
          => /\ HandleReturn(last'.outcome)
             /\ store' = store]_vars

\* C12: in every reachable state each stored event's prev_events are stored
\* events of the same room (an event stored before its parent is a forward
\* reference).
C12_NoForwardReferences ==
    \A e \in store : \A p \in e.prev_events :
        \E x \in store : x.event_id = p /\ x.room_id = e.room_id

LoopStored == last' = NoCall /\ store' # store

\* C14: backfill ends for every fetched event with acceptance, once the
\* events it depends on are stored, or with rejection: a call of
\* backfill_events stores no event while one of its prev_events or
\* auth_events is missing from the store.
C14_BackfillResolvesDependencies ==
    [][LoopStored =>
          \A e \in store' \ store :
              (e.prev_events \cup e.auth_events) \subseteq StoredIds(store')]_vars

\* C15: a call of handle_incoming_event on an event whose ID is stored
\* under a different content does not return True, and the stored record
\* stays as it is.
C15_WriteOnce ==
    [][(/\ EvMerge \in store
        /\ handle_incoming_event(EvMergeAltered.origin, EvMergeAltered))
          => /\ ~HandleReturn(last'.outcome)
             /\ store' = store]_vars

\* the room has no create event stored
Uninitialized(st, r) == ~\E c \in RoomEvents(st, r) : c.type = "m.room.create"

C17_SenderMustBeJoined ==
    [][\A e \in store' \ store :
          e.type \in {"m.room.message", "m.reaction", "m.room.redaction"}
          => GetRoomMembership(e.sender, e.room_id) = "join"]_vars

\* a step that is the call op(u, ...) of a client-facing handler
ClientCalls(op, u) == client'.call.op = op /\ client'.call.user = u

\* C18: in a room whose join rule is invite, join_room by a user whose
\* current membership is not invite is rejected and stores no join event.
C18_JoinGatedByJoinRule ==
    [][\A u \in LocalUsers :
          (/\ ClientCalls("join_room", u)
           /\ JoinRule(current_state[LocalRoom], store) = "invite"
           /\ GetRoomMembership(u, LocalRoom) \notin {"invite", "join"})
          => /\ client'.call.result = Error
             /\ store' = store]_vars

\* C19: redact_message stores a redaction event or marks the target
\* redacted only if the redactor is the sender of the target event or has a
\* power level of at least the room's redact level; a stored redaction comes
\* with the mark on its target.
C19_RedactionRestricted ==
    [][\A u \in LocalUsers, t \in Targets :
          (/\ ClientCalls("redact_message", u)
           /\ client'.call.arg = t
           /\ (store' # store \/ client'.redacted # client.redacted))
          => /\ \E target_event \in GetEventById(store, t) :
                    \/ target_event.sender = u
                    \/ GetUserPowerLevel(u, LocalRoom) >= GetRoomRedactLevel(LocalRoom)
             /\ \E e \in store' \ store :
                    /\ e.type = "m.room.redaction"
                    /\ e.sender = u
                    /\ [event_id |-> t, by |-> e.event_id] \in client'.redacted]_vars

\* Carol, with level 100, has redacted a message of Dave's and the message
\* is marked redacted
C19_Witness ==
    /\ client.call.op = "redact_message"
    /\ client.call.user = Carol
    /\ \E e \in store, t \in store :
          /\ e.type = "m.room.redaction"
          /\ e.event_id = client.call.result
          /\ t.event_id = client.call.arg
          /\ t.sender = Dave
          /\ [event_id |-> t.event_id, by |-> e.event_id] \in client.redacted

(***************************************************************************)
(* FriendsHandler._check_rate_limit.                                       *)
(***************************************************************************)
\* the recorded timestamps that are still inside the window
Unexpired(timestamps, current_time) ==
    SelectSeq(timestamps, LAMBDA timestamp : current_time - timestamp < rate_limit_window)

\* faulty variant: the request that reaches the limit is let through
OverLimitOffByOne(timestamps) == Len(timestamps) > max_requests_per_hour

OverLimit(timestamps) == Len(timestamps) >= max_requests_per_hour

\* one call at the clock reading current_time
CheckRateLimit(fr, user_id, current_time) ==
    LET kept == Unexpired(fr.rate_limit_cache[user_id], current_time)
    IN  IF OverLimit(kept)
        THEN [fr EXCEPT !.now = current_time,
                        !.rate_limit_cache[user_id] = kept,
                        !.call = [user |-> user_id, raised |-> 429]]
        ELSE [fr EXCEPT !.now = current_time,
                        !.rate_limit_cache[user_id] = Append(kept, current_time),
                        !.admitted[user_id][current_time] = @ + 1,
                        !.call = [user |-> user_id, raised |-> 0]]

\* the clock never runs backwards
check_rate_limit(user_id, current_time) ==
        /\ current_time >= friends.now
        /\ friends' = CheckRateLimit(friends, user_id, current_time)
        /\ UNCHANGED <<store, fwd, current_state, validated, last, tasks, servers,
                       resolved, client>>

InitFriends ==
    /\ InitEmpty
    /\ InitIdle
    /\ tasks = [p \in Procs |-> NoTask]
    /\ servers = [s \in Servers |-> NoServer]
    /\ resolved = NoResolve

NextFriends == \E u \in FriendUsers, t \in Times : check_rate_limit(u, t)

SpecFriends == InitFriends /\ [][NextFriends]_vars

\* the calls admitted for user u with a clock reading in [from, from + window)
RECURSIVE SumOver(_, _)
SumOver(f, S) ==
    IF S = {} THEN 0
    ELSE LET t == CHOOSE x \in S : TRUE IN f[t] + SumOver(f, S \ {t})
AdmittedInWindow(fr, u, from) ==
    SumOver(fr.admitted[u], {t \in Times : from <= t /\ t - from < rate_limit_window})

\* C20: for every user, at most 10 calls of _check_rate_limit are admitted
\* within any window of 3600 seconds, and a call made when 10 calls were
\* admitted inside the window ending at the call raises 429 and is not
\* recorded.
C20_RateLimit ==
    /\ [](\A u \in FriendUsers, from \in Times :
            AdmittedInWindow(friends, u, from) <= max_requests_per_hour)
    /\ [][\A u \in FriendUsers, t \in Times :
            (/\ check_rate_limit(u, t)
             /\ SumOver(friends.admitted[u],
                        {x \in Times : x <= t /\ t - x < rate_limit_window})
                  >= max_requests_per_hour)
            => /\ friends'.call = [user |-> u, raised |-> 429]
               /\ friends'.admitted = friends.admitted
               /\ Len(friends'.rate_limit_cache[u]) = max_requests_per_hour
               /\ ~\E i \in 1..Len(friends'.rate_limit_cache[u]) :
                     /\ friends'.rate_limit_cache[u][i] = t
                     /\ Len(friends.rate_limit_cache[u]) < i]_vars

\* Carol's eleventh call inside the window was refused, after ten admitted
\* ones at the readings 0 and 3599, and Dave was admitted meanwhile
C20_Witness ==
    /\ friends.call = [user |-> Carol, raised |-> 429]
    /\ friends.now = 3599
    /\ Len(friends.rate_limit_cache[Carol]) = max_requests_per_hour
    /\ friends.admitted[Carol][0] > 0
    /\ friends.admitted[Carol][3599] > 0
    /\ friends.admitted[Dave][3599] > 0

(***************************************************************************)
(* FriendsWorkerStore: the tables friend_requests, user_friendships and    *)
(* user_blocks, each operation one database transaction.                   *)
(***************************************************************************)
\* the order of the user IDs as strings
UserOrder == <<Carol, Dave, Erin>>
UserRank(u) == CHOOSE i \in 1..Len(UserOrder) : UserOrder[i] = u
\* _generate_request_id: a fresh ID for every request
RequestIds == <<"r1", "r2", "r3", "r4", "r5", "r6">>
NoRow == [request_id |-> "<None>", sender_user_id |-> "<None>",
          target_user_id |-> "<None>", status |-> "<None>", created_ts |-> 0]

GetFriendship(fr, user1_id, user2_id) ==
    {f \in fr.user_friendships :
        \/ f.user1_id = user1_id /\ f.user2_id = user2_id
        \/ f.user1_id = user2_id /\ f.user2_id = user1_id}

\* user1_id < user2_id is kept; an existing friendship is left as it is
CreateFriendship(fr, user1_id, user2_id) ==
    LET swap == UserRank(user1_id) > UserRank(user2_id)
        row == [user1_id |-> IF swap THEN user2_id ELSE user1_id,
                user2_id |-> IF swap THEN user1_id ELSE user2_id,
                status |-> "active"]
    IN  [fr EXCEPT !.user_friendships = @ \cup {row}]

RemoveFriendship(fr, user1_id, user2_id) ==
    [fr EXCEPT !.user_friendships = @ \ GetFriendship(fr, user1_id, user2_id)]

\* ORDER BY created_ts DESC LIMIT 1: the rows the query may return, more
\* than one when the newest rows carry the same timestamp
GetFriendRequest(fr, sender_user_id, target_user_id) ==
    LET rows == {r \in fr.friend_requests : /\ r.sender_user_id = sender_user_id
                                            /\ r.target_user_id = target_user_id}
    IN  {r \in rows : \A x \in rows : x.created_ts <= r.created_ts}

GetFriendRequestById(fr, request_id) ==
    {r \in fr.friend_requests : r.request_id = request_id}

\* faulty variant: the transaction inserts without looking for a pending row
HasPendingUnchecked(fr, sender_user_id, target_user_id) == FALSE

\* the check inside _create_friend_request_txn
HasPending(fr, sender_user_id, target_user_id) ==
    \E r \in fr.friend_requests : /\ r.sender_user_id = sender_user_id
                                  /\ r.target_user_id = target_user_id
                                  /\ r.status = "pending"

NextRequestId(fr) == RequestIds[Cardinality(fr.friend_requests) + 1]

\* the row is inserted unless HasPending, which raises StoreError 409
CreateFriendRequest(fr, sender_user_id, target_user_id, created_ts) ==
    [fr EXCEPT !.friend_requests =
        @ \cup {[request_id |-> NextRequestId(fr), sender_user_id |-> sender_user_id,
                 target_user_id |-> target_user_id, status |-> "pending",
                 created_ts |-> created_ts]}]

UpdateFriendRequestStatus(fr, request_id, status) ==
    [fr EXCEPT !.friend_requests =
        {IF r.request_id = request_id THEN [r EXCEPT !.status = status] ELSE r : r \in @}]

IsUserBlocked(fr, blocker_user_id, blocked_user_id) ==
    <<blocker_user_id, blocked_user_id>> \in fr.user_blocks

CreateUserBlock(fr, blocker_user_id, blocked_user_id) ==
    [fr EXCEPT !.user_blocks = @ \cup {<<blocker_user_id, blocked_user_id>>}]

RemoveUserBlock(fr, blocker_user_id, blocked_user_id) ==
    [fr EXCEPT !.user_blocks = @ \ {<<blocker_user_id, blocked_user_id>>}]

\* the readings of clock.time_msec() for a new row: the newest timestamp so
\* far, or a later one
MsecReadings(fr) ==
    LET seen == {r.created_ts : r \in fr.friend_requests}
        newest == IF seen = {} THEN 0 ELSE CHOOSE t \in seen : \A x \in seen : x <= t
    IN  {newest, newest + 1}

(***************************************************************************)
(* FriendsHandler: the public operations, each call run to its end before  *)
(* the next one starts.                                                    *)
(***************************************************************************)
\* users that call the handler; Erin only ever responds
SocialUsers == FriendUsers \cup {Erin}

\* faulty variant: a block of the sender is not looked at
SendRaisesThoughBlocked(fr, limited, sender, target, row) ==
    IF limited THEN 429
    ELSE IF sender = target THEN 400
    ELSE IF GetFriendship(fr, sender, target) # {} THEN 400
    ELSE IF row.status = "pending" THEN 400
    ELSE IF HasPending(fr, sender, target) THEN 409
    ELSE 0

\* the code send_friend_request raises, 0 when it creates the request;
\* limited is the outcome of _check_rate_limit, row the answer of
\* get_friend_request
SendRaises(fr, limited, sender, target, row) ==
    IF limited THEN 429
    ELSE IF sender = target THEN 400
    ELSE IF IsUserBlocked(fr, target, sender) THEN 403
    ELSE IF GetFriendship(fr, sender, target) # {} THEN 400
    ELSE IF row.status = "pending" THEN 400
    ELSE IF HasPending(fr, sender, target) THEN 409
    ELSE 0

\* the calls of send_friend_request so far that passed the rate limiter
RECURSIVE SumLen(_, _)
SumLen(f, S) ==
    IF S = {} THEN 0
    ELSE LET u == CHOOSE x \in S : TRUE IN Len(f[u]) + SumLen(f, S \ {u})
Sends(fr) == SumLen(fr.rate_limit_cache, FriendUsers)

\* what the other handlers' variables do during a call of this handler
FriendsStep(fr) ==
    /\ friends' = fr
    /\ UNCHANGED <<store, fwd, current_state, validated, last, tasks, servers,
                   resolved, client>>

send_friend_request(sender, target) ==
    /\ Sends(friends) < MaxSends
    /\ \E created_ts \in MsecReadings(friends),
          row \in (IF GetFriendRequest(friends, sender, target) = {} THEN {NoRow}
                   ELSE GetFriendRequest(friends, sender, target)) :
        LET checked == CheckRateLimit(friends, sender, friends.now)
            raised == SendRaises(friends, checked.call.raised # 0, sender, target, row)
            done == IF raised # 0 THEN checked
                    ELSE CreateFriendRequest(checked, sender, target, created_ts)
        IN  FriendsStep([done EXCEPT !.op = FriendOp("send_friend_request", raised)])

\* faulty variant: whoever calls may respond
RespondRaisesForAnyone(fr, user, request_id) ==
    LET found == GetFriendRequestById(fr, request_id)
    IN  IF found = {} THEN 404
        ELSE IF (CHOOSE r \in found : TRUE).status # "pending" THEN 400
        ELSE 0

\* the code respond_to_friend_request raises, 0 when it responds
RespondRaises(fr, user, request_id) ==
    LET found == GetFriendRequestById(fr, request_id)
        friend_request == CHOOSE r \in found : TRUE
    IN  IF found = {} THEN 404
        ELSE IF friend_request.target_user_id # user THEN 403
        ELSE IF friend_request.status # "pending" THEN 400
        ELSE 0

\* faulty variant: the friendship is created whatever the answer is
MakesFriendsAlways(accept) == TRUE

MakesFriends(accept) == accept

Respond(fr, request_id, accept) ==
    LET friend_request == CHOOSE r \in GetFriendRequestById(fr, request_id) : TRUE
        updated == UpdateFriendRequestStatus(fr, request_id,
                        IF accept THEN "accepted" ELSE "rejected")
    IN  IF MakesFriends(accept)
        THEN CreateFriendship(updated, friend_request.sender_user_id,
                              friend_request.target_user_id)
        ELSE updated

\* self.get_friends_list.invalidate((requester,))
InvalidateFriendsList(fr, user) ==
    [fr EXCEPT !.friends_list_cache = {c \in @ : c.user # user}]

respond_to_friend_request(user, request_id, accept) ==
    LET raised == RespondRaises(friends, user, request_id)
        done == IF raised # 0 THEN friends
                ELSE IF accept
                THEN InvalidateFriendsList(Respond(friends, request_id, accept), user)
                ELSE Respond(friends, request_id, accept)
    IN  FriendsStep([done EXCEPT !.op = FriendOp("respond_to_friend_request", raised)])

\* faulty variant: the block is created next to the friendship
UnfriendNever(fr, user, target) == fr

\* an existing friendship is removed first
UnfriendFirst(fr, user, target) ==
    IF GetFriendship(fr, user, target) # {} THEN RemoveFriendship(fr, user, target)
    ELSE fr

block_user(user, target) ==
    LET raised == IF user = target THEN 400 ELSE 0
        done == IF raised # 0 THEN friends
                ELSE CreateUserBlock(UnfriendFirst(friends, user, target), user, target)
    IN  FriendsStep([done EXCEPT !.op = FriendOp("block_user", raised)])

unblock_user(user, target) ==
    LET raised == IF IsUserBlocked(friends, user, target) THEN 0 ELSE 404
    IN  FriendsStep([RemoveUserBlock(friends, user, target) EXCEPT
                        !.op = FriendOp("unblock_user", raised)])

\* the request IDs a client may name: those created, and one that is unknown
RequestNames == {r.request_id : r \in friends.friend_requests} \cup {"r0"}

InitSocial == InitFriends

NextSocial ==
    \/ \E u \in FriendUsers, v \in FriendUsers : send_friend_request(u, v)
    \/ \E u \in SocialUsers, r \in RequestNames, accept \in BOOLEAN :
          respond_to_friend_request(u, r, accept)
    \/ \E u \in FriendUsers, v \in FriendUsers : block_user(u, v)
    \/ \E u \in FriendUsers, v \in FriendUsers : unblock_user(u, v)

SpecSocial == InitSocial /\ [][NextSocial]_vars

AllRequestIds == {RequestIds[i] : i \in 1..Len(RequestIds)}

\* C21: respond_to_friend_request called by a user who is not the request's
\* target raises AuthError 403 and leaves the request's status and all
\* friendships unchanged.
C21_OnlyTargetResponds ==
    [][\A u \in SocialUsers, r \in AllRequestIds, accept \in BOOLEAN :
          (/\ friends'.op.name = "respond_to_friend_request"
           /\ \E q \in GetFriendRequestById(friends, r) : q.target_user_id # u
           /\ respond_to_friend_request(u, r, accept))
          => /\ friends'.op.raised = 403
             /\ friends'.friend_requests = friends.friend_requests
             /\ friends'.user_friendships = friends.user_friendships]_vars

\* a call by someone else than the target was refused with 403 while the
\* request is pending
C21_Witness ==
    /\ friends.op = FriendOp("respond_to_friend_request", 403)
    /\ \E q \in friends.friend_requests : q.status = "pending"
    /\ friends.user_friendships = {}

\* the sender's quota of the hour is used up
Limited(fr, sender) == OverLimit(Unexpired(fr.rate_limit_cache[sender], fr.now))

C23_AcceptAndReject ==
    [][\A u \in SocialUsers, r \in AllRequestIds, accept \in BOOLEAN :
          (/\ friends'.op = FriendOp("respond_to_friend_request", 0)
           /\ RespondRaises(friends, u, r) = 0
           /\ respond_to_friend_request(u, r, accept))
          => \E q \in GetFriendRequestById(friends', r) :
                /\ q.target_user_id = u
                /\ q.status = IF accept THEN "accepted" ELSE "rejected"
                /\ accept => GetFriendship(friends', q.sender_user_id, u) # {}
                /\ ~accept => friends'.user_friendships = friends.user_friendships]_vars

\* one request was rejected, a later one accepted, and the one friendship is
\* that of the accepted request
C23_Witness ==
    /\ friends.op = FriendOp("respond_to_friend_request", 0)
    /\ \E q \in friends.friend_requests : q.status = "rejected"
    /\ \E q \in friends.friend_requests :
          /\ q.status = "accepted"
          /\ friends.user_friendships =
                GetFriendship(friends, q.sender_user_id, q.target_user_id)
    /\ Cardinality(friends.user_friendships) = 1

(***************************************************************************)
(* FriendsHandler with overlapping calls: a call of send_friend_request    *)
(* is suspended at each await of a store operation, and another call runs  *)
(* meanwhile. A step is one store transaction and the code after it, up to *)
(* the next await.                                                         *)
(***************************************************************************)
Suspend(fr, c, pc, sender, target) ==
    [fr EXCEPT !.coros[c] = [NoCoro EXCEPT !.pc = pc, !.user = sender, !.target = target]]
Return(fr, c, name, raised) ==
    [fr EXCEPT !.coros[c] = NoCoro, !.op = FriendOp(name, raised)]
\* the step of call c raises code, or goes on to await pc when code is 0
RaiseOrAwait(fr, c, code, pc) ==
    IF code # 0 THEN Return(fr, c, "send_friend_request", code)
    ELSE [fr EXCEPT !.coros[c].pc = pc]

\* the call starts: validation, rate limiter, and the answer of is_user_blocked
send_is_user_blocked(c, sender, target) ==
    /\ friends.coros[c].pc = "idle"
    /\ Sends(friends) < MaxSends
    /\ LET checked == CheckRateLimit(friends, sender, friends.now)
           code == IF checked.call.raised # 0 THEN 429
                   ELSE IF sender = target THEN 400
                   ELSE IF IsUserBlocked(friends, target, sender) THEN 403
                   ELSE 0
       IN  FriendsStep(RaiseOrAwait(Suspend(checked, c, "idle", sender, target),
                                    c, code, "get_friendship"))

send_get_friendship(c) ==
    /\ friends.coros[c].pc = "get_friendship"
    /\ LET code == IF GetFriendship(friends, friends.coros[c].user,
                                    friends.coros[c].target) # {} THEN 400 ELSE 0
       IN  FriendsStep(RaiseOrAwait(friends, c, code, "get_friend_request"))

send_get_friend_request(c) ==
    /\ friends.coros[c].pc = "get_friend_request"
    /\ LET rows == GetFriendRequest(friends, friends.coros[c].user, friends.coros[c].target)
       IN  \E row \in (IF rows = {} THEN {NoRow} ELSE rows) :
              FriendsStep(RaiseOrAwait(friends, c,
                                       IF row.status = "pending" THEN 400 ELSE 0,
                                       "create_friend_request"))

send_create_friend_request(c) ==
    /\ friends.coros[c].pc = "create_friend_request"
    /\ \E created_ts \in MsecReadings(friends) :
        LET sender == friends.coros[c].user
            target == friends.coros[c].target
            code == IF HasPending(friends, sender, target) THEN 409 ELSE 0
            done == IF code # 0 THEN friends
                    ELSE CreateFriendRequest(friends, sender, target, created_ts)
        IN  FriendsStep(Return(done, c, "send_friend_request", code))

InitRace == InitFriends

NextRace ==
    \/ \E c \in Coros, u \in FriendUsers, v \in FriendUsers : send_is_user_blocked(c, u, v)
    \/ \E c \in Coros : send_get_friendship(c)
    \/ \E c \in Coros : send_get_friend_request(c)
    \/ \E c \in Coros : send_create_friend_request(c)
    \/ \E u \in FriendUsers, r \in RequestNames, accept \in BOOLEAN :
          respond_to_friend_request(u, r, accept)

SpecRace == InitRace /\ [][NextRace]_vars

PendingRequests(fr, sender, target) ==
    {r \in fr.friend_requests : /\ r.sender_user_id = sender
                                /\ r.target_user_id = target
                                /\ r.status = "pending"}

C25_BlockRemovesFriendship ==
    [][\A a \in FriendUsers, b \in FriendUsers :
          (/\ friends'.op = FriendOp("block_user", 0)
           /\ block_user(a, b))
          => /\ IsUserBlocked(friends', a, b)
             /\ GetFriendship(friends', a, b) = {}
             /\ friends'.friend_requests = friends.friend_requests]_vars

\* Carol and Dave were friends through an accepted request when Carol
\* blocked Dave
C25_Witness ==
    /\ friends.op = FriendOp("block_user", 0)
    /\ friends.user_blocks = {<<Carol, Dave>>}
    /\ friends.user_friendships = {}
    /\ \E q \in friends.friend_requests : q.status = "accepted"

(***************************************************************************)
(* AuthHandler (src/handlers/auth.py) and the password policy              *)
(* (src/config/password_policy.py).  A password is the text together with  *)
(* what the policy reads of it: its length, the character classes it       *)
(* contains, its lowercased text and the lowercased names found in it.     *)
(* client.users is the user table of the credential store.                 *)
(***************************************************************************)
Password(text, len, lower, upper, digit, symbol, lowered, contains) ==
    [text |-> text, len |-> len, islower |-> lower, isupper |-> upper,
     isdigit |-> digit, symbol |-> symbol, lowered |-> lowered,
     contains |-> contains]
PwShort == Password("Ab1!", 4, TRUE, TRUE, TRUE, TRUE, "ab1!", {})
PwNoUpper == Password("password1!", 10, TRUE, FALSE, TRUE, TRUE, "password1!", {})
PwWithName == Password("@Carol:hs-A1", 12, TRUE, TRUE, TRUE, TRUE, "@carol:hs-a1",
                       {"@carol:hs"})
PwGood == Password("Tr0ub4dor&3", 11, TRUE, TRUE, TRUE, TRUE, "tr0ub4dor&3", {})
PwOther == Password("C0rrect-Horse", 13, TRUE, TRUE, TRUE, TRUE, "c0rrect-horse", {})
Passwords == {PwShort, PwNoUpper, PwWithName, PwGood, PwOther}
AuthUsers == {Carol, Dave}

\* PasswordPolicyConfig.__init__: the default policy
password_policy ==
    [enabled |-> TRUE, minimum_length |-> 8, maximum_length |-> 0,
     require_lowercase |-> TRUE, require_uppercase |-> TRUE,
     require_digit |-> TRUE, require_symbol |-> TRUE,
     forbidden_passwords |-> {"password", "123456", "password123", "admin", "root",
                              "guest", "user", "test", "demo", "synapse", "matrix"},
     check_common_passwords |-> TRUE, prevent_username_in_password |-> TRUE,
     prevent_server_name_in_password |-> TRUE, minimum_strength_score |-> 2]
common_passwords ==
    {"password", "123456", "123456789", "qwerty", "abc123", "password123", "admin",
     "letmein", "welcome", "monkey", "1234567890", "dragon", "master", "hello",
     "freedom"}

_calculate_strength_score(password) ==
    LET length == (IF password.len >= 8 THEN 1 ELSE 0)
                  + (IF password.len >= 12 THEN 1 ELSE 0)
        char_variety == (IF password.islower THEN 1 ELSE 0)
                        + (IF password.isupper THEN 1 ELSE 0)
                        + (IF password.isdigit THEN 1 ELSE 0)
                        + (IF password.symbol THEN 1 ELSE 0)
        score == length + (IF char_variety >= 3 THEN 1 ELSE 0)
                 + (IF char_variety >= 4 THEN 1 ELSE 0)
    IN  IF score < 4 THEN score ELSE 4

\* PasswordPolicyConfig.validate_password: is_valid of the returned pair
\* (is_valid, error_message); the function returns, it never raises.  The
\* handlers pass no server_name.
validate_password(password, username) ==
    LET pp == password_policy
    IN  \/ ~pp.enabled
        \/ /\ ~(password.len < pp.minimum_length)
           /\ ~(pp.maximum_length > 0 /\ password.len > pp.maximum_length)
           /\ ~(pp.require_lowercase /\ ~password.islower)
           /\ ~(pp.require_uppercase /\ ~password.isupper)
           /\ ~(pp.require_digit /\ ~password.isdigit)
           /\ ~(pp.require_symbol /\ ~password.symbol)
           /\ password.lowered \notin pp.forbidden_passwords
           /\ ~(pp.prevent_username_in_password /\ username # None
                /\ username \in password.contains)
           /\ ~(pp.check_common_passwords /\ password.lowered \in common_passwords)
           /\ ~(_calculate_strength_score(password) < pp.minimum_strength_score)

\* AuthHandler._hash_password and _verify_password: the salt is drawn by
\* secrets.token_hex; the hash is SHA-256 of password + salt.
Salts == {"salt1", "salt2"}
_hash_password(password, salt) ==
    [algorithm |-> "sha256", salt |-> salt, hash_value |-> <<password.text, salt>>]
_verify_password(password, stored_hash) ==
    /\ stored_hash.algorithm = "sha256"
    /\ <<password.text, stored_hash.salt>> = stored_hash.hash_value

\* the user table of the credential store
get_user_by_id(cl, user_id) == {row \in cl.users : row.user_id = user_id}
create_user(cl, user_id, password_hash) ==
    [cl EXCEPT !.users = @ \cup {[user_id |-> user_id, password_hash |-> password_hash]}]
update_user_password(cl, user_id, password_hash) ==
    [cl EXCEPT !.users = {row \in @ : row.user_id # user_id}
                         \cup {[user_id |-> user_id, password_hash |-> password_hash]}]

\* AuthHandler.validate_password: the stored hash matches the password
ValidateUserPassword(cl, user_id, password) ==
    \E row \in get_user_by_id(cl, user_id) : _verify_password(password, row.password_hash)

ValueError == "ValueError"
AuthStep(cl) ==
    /\ client' = cl
    /\ UNCHANGED <<store, fwd, current_state, validated, last, tasks, servers,
                   resolved, friends>>

\* AuthHandler.register_user: the pair returned by the policy's
\* validate_password is not examined.
register_user(user_id, password) ==
    \E salt \in Salts :
        LET exists == get_user_by_id(client, user_id) # {}
            is_valid == validate_password(password, user_id)
            stored == IF exists THEN client
                      ELSE create_user(client, user_id, _hash_password(password, salt))
        IN  AuthStep([stored EXCEPT !.call =
                         ClientCall("register_user", user_id, password.text,
                                    IF exists THEN ValueError ELSE user_id)])

\* AuthHandler.change_password: the same call, the same unexamined result.
change_password(user_id, old_password, new_password) ==
    \E salt \in Salts :
        LET known == ValidateUserPassword(client, user_id, old_password)
            is_valid == validate_password(new_password, user_id)
            stored == IF ~known THEN client
                      ELSE update_user_password(client, user_id,
                                                _hash_password(new_password, salt))
        IN  AuthStep([stored EXCEPT !.call =
                         ClientCall("change_password", user_id, new_password.text,
                                    IF known THEN "True" ELSE ValueError)])

InitAuth == InitFriends
NextAuth ==
    \/ \E u \in AuthUsers, p \in Passwords : register_user(u, p)
    \/ \E u \in AuthUsers, old \in Passwords, new \in Passwords :
           change_password(u, old, new)
SpecAuth == InitAuth /\ [][NextAuth]_vars

\* C26: register_user and change_password raise ValueError and store no user
\* record and no new password hash whenever the supplied password does not
\* satisfy the password policy.
C26_PolicyEnforced ==
    [][\A u \in AuthUsers, p \in Passwords :
          (/\ client'.call.op \in {"register_user", "change_password"}
           /\ client'.call.user = u /\ client'.call.arg = p.text
           /\ ~validate_password(p, u))
          => /\ client'.call.result = ValueError
             /\ client'.users = client.users]_vars

(***************************************************************************)
(* FederationAPI.handle_send_transaction (src/api/federation.py).  A PDU   *)
(* is a JSON value of the request body: an object (an event dict) or, in   *)
(* a malformed transaction, a value that is no object.                     *)
(***************************************************************************)
MaxPdus == 2         \* PDUs of one transaction
Pdu(json, ev) == [json |-> json, ev |-> ev]
NotAnEvent == [present |-> {}]
PduJunk == Pdu("string", NotAnEvent)
\* a creation event of !r:s1 whose ID lacks the $ sigil and the server name
EvBadId == Event("01c", Room1, Alice, "m.room.create", "",
                 [creator |-> Alice], {}, {}, 1, "s1")
\* the IDs of the model that are not of the form $<localpart>:<server_name>
\* (the IDs written with $ stand for well-formed ones)
BadFormatIds == {"01c"}
StructurallyValid(e) ==
    /\ \A f \in RequiredFields : f \in e.present
    /\ e.event_id \notin BadFormatIds
TxnPdus == {Pdu("object", EvCreate), Pdu("object", EvJoinA),
            Pdu("object", EvNoSender), Pdu("object", EvBadId), PduJunk}
Transactions == UNION {[1..n -> TxnPdus] : n \in 0..MaxPdus}
NoOrigin == ""
\* pdu.get('event_id', ''): a string has no get
PduKey(pdu) == IF "event_id" \in pdu.ev.present THEN pdu.ev.event_id ELSE ""

\* What a call of handle_incoming_event gives its caller: "True", "False",
\* or "raise" when an exception leaves it.  event.get in the first log line
\* is outside the try; an exception of a collaborator (raises) is inside it.
IncomingResult(st, origin, pdu, raises) ==
    IF pdu.json # "object" THEN "raise"
    ELSE IF raises THEN "False"
    ELSE IF HandleReturn(HandleOutcome(st, origin, pdu.ev)) THEN "True" ELSE "False"

\* the datastore after the call
IncomingStored(db, origin, pdu, raises) ==
    IF pdu.json = "object" /\ ~raises
       /\ HandleOutcome(db.store, origin, pdu.ev) = "stored"
    THEN StoreEvent(db, pdu.ev) ELSE db

RECURSIVE ProcessPdus(_, _, _, _, _)
\* for pdu in pdus: acc is [db, pdu_results, valid, failed]; failed is set
\* when an exception leaves the loop body, which ends the loop.  The
\* handler of the inner except evaluates pdu.get again.
ProcessPdus(acc, origin, pdus, raising, i) ==
    IF i > Len(pdus) \/ acc.failed THEN acc
    ELSE LET pdu == pdus[i]
             result == IncomingResult(acc.db.store, origin, pdu, i \in raising)
             db == IncomingStored(acc.db, origin, pdu, i \in raising)
             passed == pdu.json = "object" /\ i \notin raising
                       /\ HandleReturn(HandleOutcome(acc.db.store, origin, pdu.ev))
             entry == IF result = "raise" THEN "error" ELSE result
             next == IF pdu.json # "object"
                     THEN [acc EXCEPT !.failed = TRUE]
                     ELSE [db |-> db,
                           pdu_results |-> (PduKey(pdu) :> entry) @@ acc.pdu_results,
                           valid |-> IF passed THEN acc.valid \cup {pdu.ev.event_id}
                                     ELSE acc.valid,
                           failed |-> FALSE]
         IN  ProcessPdus(next, origin, pdus, raising, i + 1)

Response(code, pdu_results) == [code |-> code, pdus |-> pdu_results]

\* handle_send_transaction(origin, transaction_id, {'pdus': pdus}); raising
\* is the set of PDUs during whose admission a collaborator raises
handle_send_transaction(origin, pdus, raising) ==
    \E acc \in {IF origin = NoOrigin
                THEN [db |-> DB, pdu_results |-> <<>>, valid |-> validated,
                      failed |-> FALSE]
                ELSE ProcessPdus([db |-> DB, pdu_results |-> <<>>, valid |-> validated,
                                  failed |-> FALSE], origin, pdus, raising, 1)} :
    /\ last' = [ev |-> pdus, origin |-> origin,
                outcome |-> IF origin = NoOrigin THEN Response(403, <<>>)
                            ELSE IF acc.failed THEN Response(500, <<>>)
                            ELSE Response(200, acc.pdu_results)]
    /\ validated' = acc.valid
    /\ Commit(acc.db)
    /\ UNCHANGED <<tasks, servers, resolved, client, friends>>

NextTxn ==
    \E origin \in Servers \cup {NoOrigin}, pdus \in Transactions :
        \E raising \in SUBSET (1..Len(pdus)) :
            handle_send_transaction(origin, pdus, raising)
SpecTxn == Init /\ [][NextTxn]_vars

\* C27: admission never crashes on bad input: whatever the PDUs of a
\* transaction from a named origin are (malformed ones and ones that make
\* a collaborator raise included), no exception leaves admission and the
\* response carries a result for every PDU of the transaction.
C27_NeverCrashes ==
    [][\A origin \in Servers, pdus \in Transactions :
          (last'.ev = pdus /\ last'.origin = origin)
          => /\ \A i \in 1..Len(pdus), raises \in BOOLEAN, st \in {store, store'} :
                    IncomingResult(st, origin, pdus[i], raises) # "raise"
             /\ last'.outcome.code = 200
             /\ \A i \in 1..Len(pdus) : PduKey(pdus[i]) \in DOMAIN last'.outcome.pdus]_vars

\* C28: a structurally invalid event (a required field missing, or an ID in
\* a bad format) is rejected and never stored: no stored event is
\* structurally invalid, and the result reported for such a PDU is False.
C28_MalformedRejected ==
    /\ [](\A e \in store : StructurallyValid(e))
    /\ [][\A i \in 1..Len(last'.ev) :
             LET pdu == last'.ev[i]
             IN  (/\ pdu.json = "object" /\ ~StructurallyValid(pdu.ev)
                  /\ last'.outcome.code = 200
                  /\ \A j \in 1..Len(last'.ev) : j # i => PduKey(last'.ev[j]) # PduKey(pdu))
                 => last'.outcome.pdus[PduKey(pdu)] = "False"]_vars

(***************************************************************************)
(* The room !r:s1 without a power levels event: after the creation and     *)
(* the creator's join, Bob is invited and joins, and then both users send  *)
(* events that need a power level.                                         *)
(***************************************************************************)
EvDInvite == Event("$d3iv", Room1, Alice, "m.room.member", Bob,
                   Member("invite"), {"$02ja"}, {"$01c", "$02ja"}, 3, "s1")
EvDJoinB == Event("$d4jb", Room1, Bob, "m.room.member", Bob,
                  Member("join"), {"$d3iv"}, {"$01c", "$d3iv"}, 4, "s2")
EvDInviteC == Event("$d5ic", Room1, Bob, "m.room.member", Carol,
                    Member("invite"), {"$d4jb"}, {"$01c", "$d4jb"}, 5, "s2")
EvDKickA == Event("$d5ka", Room1, Bob, "m.room.member", Alice,
                  Member("leave"), {"$d4jb"}, {"$01c", "$d4jb", "$02ja"}, 5, "s2")
EvDBanB == Event("$d5kb", Room1, Alice, "m.room.member", Bob,
                 Member("ban"), {"$d4jb"}, {"$01c", "$02ja", "$d4jb"}, 5, "s1")
EvDMsgB == Event("$d5mb", Room1, Bob, "m.room.message", NoKey,
                 [body |-> "hi"], {"$d4jb"}, {"$01c", "$d4jb"}, 5, "s2")
EvDNameA == Event("$d5na", Room1, Alice, "m.room.name", "",
                  [name |-> "a"], {"$d4jb"}, {"$01c", "$02ja"}, 5, "s1")
EvDNameB == Event("$d5nb", Room1, Bob, "m.room.name", "",
                  [name |-> "b"], {"$d4jb"}, {"$01c", "$d4jb"}, 5, "s2")
NoPowerEvents == {EvCreate, EvJoinA, EvDInvite, EvDJoinB, EvDInviteC, EvDKickA,
                  EvDBanB, EvDMsgB, EvDNameA, EvDNameB}

NextNoPower ==
    \E origin \in Servers, e \in NoPowerEvents : handle_incoming_event(origin, e)
SpecNoPower == Init /\ [][NextNoPower]_vars

\* C29: when the state has no m.room.power_levels event, authorization uses
\* ban=50, kick=50, redact=50, invite=0, state_default=50, events_default=0,
\* users_default=0 and puts the room creator at level 100: with the creator
\* Alice at 100 and every other user at 0, an event of a joined sender that
\* passes the origin test is admitted exactly when the sender's level reaches
\* the level the defaults require for it.
C29_HardcodedDefaults ==
    /\ [](\A e \in NoPowerEvents :
             \E state \in {StateAtParents(store, e)} :
                 (CreateSlot \in DOMAIN state /\ PowerSlot \notin DOMAIN state)
                 => /\ \E pl \in {PowerContent(state, store)} :
                         /\ pl.ban = 50 /\ pl.kick = 50 /\ pl.redact = 50
                         /\ pl.invite = 0 /\ pl.state_default = 50
                         /\ pl.events_default = 0 /\ pl.users_default = 0
                    /\ \A u \in {Alice, Bob, Carol} :
                         UserLevel(state, store, u) = IF u = Alice THEN 100 ELSE 0)
    /\ [][\A e \in NoPowerEvents :
             (/\ last'.ev = e.event_id /\ last'.outcome \in {"invalid", "stored"}
              /\ e.type # "m.room.create"
              /\ \E state \in {StateAtParents(store, e)} :
                    /\ CreateSlot \in DOMAIN state
                    /\ MembershipOf(state, store, e.sender) = "join"
                    /\ e.type = "m.room.member"
                       => /\ e.state_key # e.sender
                          /\ MembershipOf(state, store, e.state_key) \notin {"join", "ban"}
                             \/ e.content.membership # "invite")
             => LET level(u) == IF u = Alice THEN 100 ELSE 0
                    m == e.content.membership
                    needed == IF e.type = "m.room.member"
                              THEN (IF m = "invite" THEN 0 ELSE 50)
                              ELSE IF IsState(e) THEN 50 ELSE 0
                    admitted == /\ level(e.sender) >= needed
                                /\ (e.type = "m.room.member" /\ m # "invite")
                                   => level(e.sender) > level(e.state_key)
                IN  (last'.outcome = "stored") <=> admitted]_vars

\* Bob, at the default level 0, has invited Carol into the room that has no
\* power levels event.
C29_Witness ==
    /\ last = [ev |-> "$d5ic", outcome |-> "stored"]
    /\ \A e \in store : e.type # "m.room.power_levels"
    /\ EvDNameA \in store /\ EvDNameB \notin store

\* the slots on which every input state set holds the same event
AgreedSlots(stateSets) ==
    {s \in DOMAIN stateSets[1] :
        \A i \in 1..Len(stateSets) :
            s \in DOMAIN stateSets[i] /\ stateSets[i][s] = stateSets[1][s]}

\* C30: state resolution leaves unconflicted slots untouched: every slot on
\* which all input state sets agree is mapped by the resolved state to that
\* same event, whatever happens with the conflicted slots.
C30_UnconflictedUntouched ==
    Len(resolved.inputs) > 0
    => \A s \in AgreedSlots(resolved.inputs) :
           /\ s \in DOMAIN resolved.output
           /\ resolved.output[s] = resolved.inputs[1][s]

\* Resolve ran on state sets that agree on the power levels and disagree on
\* the topic, and the replay decided the topic
C30_Witness ==
    /\ Len(resolved.inputs) >= 2
    /\ PowerSlot \in AgreedSlots(resolved.inputs)
    /\ <<"m.room.topic", "">> \in DOMAIN resolved.output
    /\ <<"m.room.topic", "">> \notin AgreedSlots(resolved.inputs)
    /\ \E i \in 1..Len(resolved.inputs) : MemberSlot(Bob) \in DOMAIN resolved.inputs[i]
                                          /\ resolved.inputs[i][MemberSlot(Bob)] = "$07kb"

C32_LocalSendHasDependencies ==
    [][/\ \A e \in store' \ store :
             /\ e.prev_events = fwd[e.room_id]
             /\ e.prev_events # {}
             /\ (e.prev_events \cup e.auth_events) \subseteq StoredIds(store)
       /\ client'.call.result \in {LocalIds[i] : i \in 1..Len(LocalIds)}
          => \E e \in store' : e.event_id = client'.call.result]_vars

\* a message was sent after another local event and points at it
C32_Witness ==
    /\ client.call.op = "send_message"
    /\ \E e \in store : /\ e.event_id = client.call.result
                        /\ e.type = "m.room.message"
                        /\ e.prev_events = {"$m1"}
                        /\ "$l3p" \in e.auth_events

(***************************************************************************)
(* FriendsHandler.get_friends_list over get_user_friendships.              *)
(***************************************************************************)
RECURSIVE SeqsOf(_)
\* the orders in which a set of rows may be returned
SeqsOf(S) ==
    IF S = {} THEN {<<>>}
    ELSE UNION {{<<x>> \o t : t \in SeqsOf(S \ {x})} : x \in S}

\* get_user_friendships: the active friendships of the user, each as a dict
\* with the keys friend_id and status (and created_ts, which the rows of the
\* model do not carry: ORDER BY created_ts DESC is any order here)
GetUserFriendships(fr, user_id) ==
    SeqsOf({[friend_id |-> IF f.user1_id = user_id THEN f.user2_id ELSE f.user1_id,
             status |-> f.status] :
                f \in {g \in fr.user_friendships :
                          /\ g.user1_id = user_id \/ g.user2_id = user_id
                          /\ g.status = "active"}})

KeyError == "KeyError"
\* friendship["user2_id"] if friendship["user1_id"] == user_id else
\* friendship["user1_id"]: KeyError when the dict has no such key
FriendUserId(friendship, user_id) ==
    IF "user1_id" \notin DOMAIN friendship THEN KeyError
    ELSE IF friendship.user1_id = user_id
    THEN (IF "user2_id" \in DOMAIN friendship THEN friendship.user2_id ELSE KeyError)
    ELSE friendship.user1_id

\* the entries of friends_list; the profile fields are left out
FriendsList(friendships, user_id) ==
    [i \in 1..Len(friendships) |->
        [user_id |-> FriendUserId(friendships[i], user_id),
         status |-> friendships[i].status]]

ListOp(user, error, result) ==
    [name |-> "get_friends_list", raised |-> 0, user |-> user, error |-> error,
     result |-> result]

\* get_friends_list under @cached: a result that was returned before is
\* served again; a call that raises leaves nothing in the cache
get_friends_list(user) ==
    \E friendships \in GetUserFriendships(friends, user) :
        LET hit == {c \in friends.friends_list_cache : c.user = user}
            failed == \E i \in 1..Len(friendships) :
                         FriendUserId(friendships[i], user) = KeyError
            result == IF hit # {} THEN (CHOOSE c \in hit : TRUE).result
                      ELSE IF failed THEN <<>>
                      ELSE FriendsList(friendships, user)
            cache == IF hit # {} \/ failed THEN friends.friends_list_cache
                     ELSE friends.friends_list_cache
                          \cup {[user |-> user, result |-> result]}
        IN  FriendsStep([friends EXCEPT
                !.friends_list_cache = cache,
                !.op = ListOp(user, IF hit = {} /\ failed THEN KeyError ELSE None,
                              result)])

NextList ==
    \/ \E u \in FriendUsers, v \in SocialUsers : send_friend_request(u, v)
    \/ \E u \in SocialUsers, r \in RequestNames, accept \in BOOLEAN :
          respond_to_friend_request(u, r, accept)
    \/ \E u \in SocialUsers : get_friends_list(u)
SpecList == InitFriends /\ [][NextList]_vars

\* C33: for every active friendship of user U returned by the store,
\* get_friends_list(U) returns one entry whose user_id is the other user of
\* that friendship, never U itself, in the order the store returned them.
C33_FriendsListed ==
    [][friends'.op.name = "get_friends_list"
       => \E friendships \in GetUserFriendships(friends, friends'.op.user) :
             /\ friends'.op.error = None
             /\ Len(friends'.op.result) = Len(friendships)
             /\ \A i \in 1..Len(friendships) :
                   /\ friends'.op.result[i].user_id = friendships[i].friend_id
                   /\ friends'.op.result[i].user_id # friends'.op.user]_vars

(***************************************************************************)
(* MessageHandler.send_message with calls that overlap: a call gives way   *)
(* to the other one at each await.                                         *)
(***************************************************************************)
SendTxnIds == {"txn1", "txn2"}
SendCall(pc, user, txn, event_id, event, result) ==
    [pc |-> pc, user |-> user, txn |-> txn, event_id |-> event_id, event |-> event,
     result |-> result]
SetCall(p, call) ==
    /\ tasks' = [tasks EXCEPT ![p] = call]
    /\ UNCHANGED <<validated, last, servers, resolved, friends>>
AtPc(p, pc) == tasks[p].pc = pc
\* secrets.token_urlsafe(32): an ID no event and no call in progress has
FreshEventIds ==
    {LocalIds[i] : i \in 1..Len(LocalIds)}
    \ (StoredIds(store) \cup {tasks[q].event_id : q \in {r \in Procs : tasks[r].pc # "idle"}})

\* a client calls send_message(LocalRoom, u, "m.text", content, txn)
send_call(p, u, txn) ==
    /\ tasks[p].pc \in {"idle", "done"}
    /\ SetCall(p, SendCall("membership", u, txn, None, {}, None))
    /\ UNCHANGED <<store, fwd, current_state, client>>

\* await get_room_membership, then raise or go on to the lookup
send_get_room_membership(p) ==
    /\ AtPc(p, "membership")
    /\ SetCall(p, IF GetRoomMembership(tasks[p].user, LocalRoom) # "join"
                  THEN [tasks[p] EXCEPT !.pc = "done", !.result = Error]
                  ELSE [tasks[p] EXCEPT !.pc = "txn_lookup"])
    /\ UNCHANGED <<store, fwd, current_state, client>>

\* await get_event_by_txn_id, then return the known event ID or draw a new one
send_get_event_by_txn_id(p) ==
    /\ AtPc(p, "txn_lookup")
    /\ \E existing \in {GetEventByTxnId(tasks[p].user, LocalRoom, tasks[p].txn)} :
          IF existing # {}
          THEN \E m \in existing :
                  SetCall(p, [tasks[p] EXCEPT !.pc = "done", !.result = m.event_id])
          ELSE /\ FreshEventIds # {}
               /\ SetCall(p, [tasks[p] EXCEPT
                       !.pc = "create",
                       !.event_id = CHOOSE id \in FreshEventIds :
                                       \A x \in FreshEventIds : IdRank(id) <= IdRank(x)])
    /\ UNCHANGED <<store, fwd, current_state, client>>

\* await event_builder.create_event
send_create_event(p) ==
    /\ AtPc(p, "create")
    /\ SetCall(p, [tasks[p] EXCEPT
            !.pc = "store",
            !.event = {CreateEvent(tasks[p].event_id, LocalRoom, tasks[p].user,
                                   "m.room.message", NoKey,
                                   [msgtype |-> "m.text", body |-> "hi"])}])
    /\ UNCHANGED <<store, fwd, current_state, client>>

\* await store_event
send_store_event(p) ==
    /\ AtPc(p, "store")
    /\ \E new \in {StoreEvent(DB, CHOOSE e \in tasks[p].event : TRUE)} : Commit(new)
    /\ SetCall(p, [tasks[p] EXCEPT !.pc = "mapping"])
    /\ UNCHANGED client

\* await store_txn_id_mapping, then return the new event ID
send_store_txn_id_mapping(p) ==
    /\ AtPc(p, "mapping")
    /\ client' = [client EXCEPT !.txns = @ \cup
                     {[sender |-> tasks[p].user, room |-> LocalRoom,
                       txn |-> tasks[p].txn, event_id |-> tasks[p].event_id]}]
    /\ SetCall(p, [tasks[p] EXCEPT !.pc = "done", !.result = tasks[p].event_id])
    /\ UNCHANGED <<store, fwd, current_state>>

NextSend ==
    \/ \E p \in Procs, u \in LocalUsers, txn \in SendTxnIds : send_call(p, u, txn)
    \/ \E p \in Procs : send_get_room_membership(p)
    \/ \E p \in Procs : send_get_event_by_txn_id(p)
    \/ \E p \in Procs : send_create_event(p)
    \/ \E p \in Procs : send_store_event(p)
    \/ \E p \in Procs : send_store_txn_id_mapping(p)
SpecSend == InitLocal /\ [][NextSend]_vars

\* C34: transaction-ID idempotence: for a fixed (sender, room, txn_id) the
\* calls of send_message, sequential or concurrent, store exactly one
\* message event and all return the same event_id.
C34_TxnIdempotent ==
    /\ \A p, q \in Procs :
          (/\ tasks[p].pc = "done" /\ tasks[q].pc = "done"
           /\ tasks[p].user = tasks[q].user /\ tasks[p].txn = tasks[q].txn
           /\ tasks[p].result # Error /\ tasks[q].result # Error)
          => tasks[p].result = tasks[q].result
    /\ \A m, n \in client.txns :
          (m.sender = n.sender /\ m.room = n.room /\ m.txn = n.txn)
          => m.event_id = n.event_id
    /\ \A m \in client.txns :
          Cardinality({e \in store : e.type = "m.room.message" /\ e.sender = m.sender
                          /\ \E n \in client.txns :
                                n.event_id = e.event_id /\ n.txn = m.txn}) = 1

(***************************************************************************)
(* FriendsHandler.respond_to_friend_request with calls that overlap: a     *)
(* call gives way to the other one at each await.                          *)
(***************************************************************************)
\* the call starts: await get_friend_request_by_id and the checks on its answer;
\* the call keeps the row it read
respond_get_friend_request_by_id(c, user, request_id, accept) ==
    /\ friends.coros[c].pc = "idle"
    /\ LET code == RespondRaises(friends, user, request_id)
           friend_request == CHOOSE r \in GetFriendRequestById(friends, request_id) : TRUE
       IN  FriendsStep(IF code # 0
                       THEN Return(friends, c, "respond_to_friend_request", code)
                       ELSE [friends EXCEPT !.coros[c] =
                                [pc |-> "update_friend_request_status", user |-> user,
                                 target |-> friend_request.sender_user_id,
                                 request_id |-> request_id, accept |-> accept]])

\* await update_friend_request_status: the UPDATE names the request ID only
respond_update_friend_request_status(c) ==
    /\ friends.coros[c].pc = "update_friend_request_status"
    /\ LET co == friends.coros[c]
           updated == UpdateFriendRequestStatus(friends, co.request_id,
                          IF co.accept THEN "accepted" ELSE "rejected")
       IN  FriendsStep(IF co.accept
                       THEN [updated EXCEPT !.coros[c].pc = "create_friendship"]
                       ELSE Return(updated, c, "respond_to_friend_request", 0))

\* await create_friendship, then the cache entry of the caller is dropped
respond_create_friendship(c) ==
    /\ friends.coros[c].pc = "create_friendship"
    /\ LET co == friends.coros[c]
       IN  FriendsStep(Return(InvalidateFriendsList(
                                  CreateFriendship(friends, co.target, co.user), co.user),
                              c, "respond_to_friend_request", 0))

NextRespond ==
    \/ \E u \in FriendUsers, v \in FriendUsers : send_friend_request(u, v)
    \/ \E c \in Coros, u \in FriendUsers, r \in RequestNames, accept \in BOOLEAN :
          respond_get_friend_request_by_id(c, u, r, accept)
    \/ \E c \in Coros : respond_update_friend_request_status(c)
    \/ \E c \in Coros : respond_create_friendship(c)
SpecRespond == InitFriends /\ [][NextRespond]_vars

\* C35: a friend request leaves the pending state at most once: once its
\* status is accepted or rejected no later or concurrent call of
\* respond_to_friend_request changes it, and when no call is in progress a
\* friendship exists only between users one of whose requests to the other
\* has the status accepted.
C35_RespondedOnce ==
    /\ [][\A r \in friends.friend_requests :
             r.status \in {"accepted", "rejected"} => r \in friends'.friend_requests]_vars
    /\ []((\A c \in Coros : friends.coros[c].pc = "idle")
          => \A f \in friends.user_friendships :
                \E r \in friends.friend_requests :
                    /\ {r.sender_user_id, r.target_user_id} = {f.user1_id, f.user2_id}
                    /\ r.status = "accepted")

\* C36: in every reachable state no friendship exists between two users
\* while one of them has the other blocked, whatever the order in which
\* send_friend_request, respond_to_friend_request, block_user and
\* unblock_user are called.
C36_NoFriendshipWhileBlocked ==
    \A f \in friends.user_friendships :
        /\ ~IsUserBlocked(friends, f.user1_id, f.user2_id)
        /\ ~IsUserBlocked(friends, f.user2_id, f.user1_id)

(***************************************************************************)
(* handle_incoming_event and the server an event comes from (SpecOrigin):  *)
(* every server delivers every event of the room, its own and the other    *)
(* server's, and an event dict that carries no origin field.               *)
(***************************************************************************)
\* a message of Bob's whose dict has no origin field
EvNoOrigin == [Event("$07no", Room1, Bob, "m.room.message", NoKey,
                     [body |-> "no"], {"$06pl"}, {"$01c", "$05jb", "$06pl"}, 7, "s2")
               EXCEPT !.present = AllFields \ {"origin"}]
OriginEvents == RemoteEvents \cup {EvNoOrigin}

NextOrigin ==
    \E origin \in Servers, e \in OriginEvents : handle_incoming_event(origin, e)

SpecOrigin == Init /\ [][NextOrigin]_vars

\* C37: handle_incoming_event stores an event received from server S only if
\* the event's origin field equals S; an event whose origin is missing or
\* names another server is rejected (the call returns False) and not stored.
C37_OriginChecked ==
    [][\A s \in Servers, e \in OriginEvents :
          (last'.ev = e.event_id /\ handle_incoming_event(s, e))
          => /\ e \in store' \ store => EventGet(e, "origin") = s
             /\ EventGet(e, "origin") # s
                    => /\ ~HandleReturn(last'.outcome)
                       /\ store' = store
                       /\ e.event_id \notin StoredIds(store) => e \notin store']_vars

\* the room has grown to $06pl from the servers its events name, and the
\* message without an origin field, whose parent is stored, was turned away
C37_Witness ==
    /\ last.ev = EvNoOrigin.event_id
    /\ last.outcome = "origin_mismatch"
    /\ "$06pl" \in StoredIds(store)
    /\ \A x \in store : "origin" \in x.present

(***************************************************************************)
(* DeviceHandler.delete_device and delete_devices (src/handlers/device.py) *)
(* beside the calls that write a device's credentials: login_user          *)
(* (src/handlers/auth.py) and upload_device_keys.  A call gives way to the *)
(* other one at each await.  client.devices holds the device records of    *)
(* the one user, client.access_tokens her tokens with the device each is   *)
(* bound to, client.device_keys the devices that have keys uploaded.       *)
(***************************************************************************)
DeviceIds == {"DEV1", "DEV2"}
DeviceCall(op, pc, device, rest, result, results) ==
    [op |-> op, pc |-> pc, device |-> device, rest |-> rest, result |-> result,
     results |-> results]
DeviceDone(call, result, results) ==
    DeviceCall(call.op, "done", call.device, <<>>, result, results)
DeleteOps == {"delete_device", "delete_devices"}
AtDevicePc(p, ops, pc) == tasks[p].pc = pc /\ tasks[p].op \in ops
TokensOf(c, d) == {t \in c.access_tokens : t.device_id = d}
HasCredentials(c, d) == TokensOf(c, d) # {} \/ d \in c.device_keys

\* a client calls login_user(user, password, device_id=d) with the right
\* password, upload_device_keys(user, d, keys) with well-formed keys,
\* delete_device(user, d), or delete_devices(user, ids)
device_call(p, op, ids) ==
    /\ tasks[p].pc \in {"idle", "done"}
    /\ SetCall(p, DeviceCall(op, IF op = "login_user" THEN "store_access_token"
                                 ELSE "get_device",
                             ids[1], Tail(ids), None, {}))
    /\ UNCHANGED <<store, fwd, current_state, client>>

\* login_user: await self.store.store_access_token(user_id, token, device_id)
login_store_access_token(p) ==
    /\ AtDevicePc(p, {"login_user"}, "store_access_token")
    /\ client' = [client EXCEPT !.access_tokens =
                     @ \cup {[token |-> p, device_id |-> tasks[p].device]}]
    /\ SetCall(p, [tasks[p] EXCEPT !.pc = "store_device"])
    /\ UNCHANGED <<store, fwd, current_state>>

\* login_user: await self.store.store_device(user_id, device_id, ...)
login_store_device(p) ==
    /\ AtDevicePc(p, {"login_user"}, "store_device")
    /\ client' = [client EXCEPT !.devices = @ \cup {tasks[p].device}]
    /\ SetCall(p, DeviceDone(tasks[p], "ok", {}))
    /\ UNCHANGED <<store, fwd, current_state>>

\* upload_device_keys: await self.store.get_device, ValueError when there is none
upload_get_device(p) ==
    /\ AtDevicePc(p, {"upload_device_keys"}, "get_device")
    /\ SetCall(p, IF tasks[p].device \in client.devices
                  THEN [tasks[p] EXCEPT !.pc = "store_device_keys"]
                  ELSE DeviceDone(tasks[p], ValueError, {}))
    /\ UNCHANGED <<store, fwd, current_state, client>>

\* upload_device_keys: await self.store.store_device_keys
upload_store_device_keys(p) ==
    /\ AtDevicePc(p, {"upload_device_keys"}, "store_device_keys")
    /\ client' = [client EXCEPT !.device_keys = @ \cup {tasks[p].device}]
    /\ SetCall(p, DeviceDone(tasks[p], "ok", {}))
    /\ UNCHANGED <<store, fwd, current_state>>

\* The end of one delete_device.  Called by the client it returns success
\* or raises; called by the loop of delete_devices its result, False for an
\* exception, is put in the results and the loop goes on to the next ID.
DeleteDeviceEnds(call, success, raised) ==
    IF call.op = "delete_device"
    THEN DeviceDone(call, IF raised THEN ValueError ELSE success, {})
    ELSE LET results == call.results \cup
                           {[device_id |-> call.device,
                             success |-> IF raised THEN FALSE ELSE success]}
         IN  IF Len(call.rest) = 0 THEN DeviceDone(call, "ok", results)
             ELSE DeviceCall(call.op, "get_device", call.rest[1], Tail(call.rest),
                             None, results)

\* delete_device: await self.store.get_device, ValueError when there is none
delete_get_device(p) ==
    /\ AtDevicePc(p, DeleteOps, "get_device")
    /\ SetCall(p, IF tasks[p].device \in client.devices
                  THEN [tasks[p] EXCEPT !.pc = "delete_access_tokens_for_device"]
                  ELSE DeleteDeviceEnds(tasks[p], FALSE, TRUE))
    /\ UNCHANGED <<store, fwd, current_state, client>>

\* delete_device: await self.store.delete_access_tokens_for_device
delete_access_tokens_for_device(p) ==
    /\ AtDevicePc(p, DeleteOps, "delete_access_tokens_for_device")
    /\ client' = [client EXCEPT !.access_tokens = @ \ TokensOf(client, tasks[p].device)]
    /\ SetCall(p, [tasks[p] EXCEPT !.pc = "delete_device_keys"])
    /\ UNCHANGED <<store, fwd, current_state>>

\* delete_device: await self.store.delete_device_keys
delete_device_keys(p) ==
    /\ AtDevicePc(p, DeleteOps, "delete_device_keys")
    /\ client' = [client EXCEPT !.device_keys = @ \ {tasks[p].device}]
    /\ SetCall(p, [tasks[p] EXCEPT !.pc = "delete_device"])
    /\ UNCHANGED <<store, fwd, current_state>>

\* delete_device: success = await self.store.delete_device; return success
delete_device(p) ==
    /\ AtDevicePc(p, DeleteOps, "delete_device")
    /\ client' = [client EXCEPT !.devices = @ \ {tasks[p].device}]
    /\ SetCall(p, DeleteDeviceEnds(tasks[p], tasks[p].device \in client.devices, FALSE))
    /\ UNCHANGED <<store, fwd, current_state>>

NextDevice ==
    \/ \E p \in Procs, d \in DeviceIds,
          op \in {"login_user", "upload_device_keys", "delete_device"} :
          device_call(p, op, <<d>>)
    \/ \E p \in Procs : device_call(p, "delete_devices", <<"DEV1", "DEV2">>)
    \/ \E p \in Procs : login_store_access_token(p)
    \/ \E p \in Procs : login_store_device(p)
    \/ \E p \in Procs : upload_get_device(p)
    \/ \E p \in Procs : upload_store_device_keys(p)
    \/ \E p \in Procs : delete_get_device(p)
    \/ \E p \in Procs : delete_access_tokens_for_device(p)
    \/ \E p \in Procs : delete_device_keys(p)
    \/ \E p \in Procs : delete_device(p)

SpecDevice == InitFriends /\ [][NextDevice]_vars

\* C38: device deletion revokes credentials before removing the device: at
\* every point of a delete_device(user, device) that found the device, an
\* access token or device key bound to the device exists only if the device
\* record still exists, and when delete_device returns true neither tokens
\* nor keys of the device remain.
C38_CredentialsRevokedFirst ==
    /\ [](\A p \in Procs :
             (/\ tasks[p].pc \in {"delete_access_tokens_for_device",
                                  "delete_device_keys", "delete_device"}
              /\ HasCredentials(client, tasks[p].device))
             => tasks[p].device \in client.devices)
    /\ [][\A p \in Procs :
             (/\ tasks[p].pc = "delete_device"
              /\ delete_device(p)
              /\ tasks[p].device \in client.devices)
             => ~HasCredentials(client', tasks[p].device)]_vars

\* C39: send_friend_request is rejected with 429 only if the sender has
\* created 10 friend requests, and an attempt rejected for another reason
\* (request to self, blocked, already friends, already pending) does not
\* consume the sender's hourly quota: it adds no timestamp to the sender's
\* entry of the rate limiter.
C39_RefusalsKeepQuota ==
    [][\A u \in FriendUsers :
          (friends'.op.name = "send_friend_request" /\ friends'.call.user = u)
          => /\ friends'.op.raised = 429
                    => Cardinality({r \in friends.friend_requests :
                                       r.sender_user_id = u}) >= max_requests_per_hour
             /\ friends'.op.raised \notin {0, 429}
                    => Len(friends'.rate_limit_cache[u]) <= Len(friends.rate_limit_cache[u])]_vars

(***************************************************************************)
(* RoomHandler.join_room, leave_room and invite_user with calls that       *)
(* overlap: a call gives way to the other one at each await.               *)
(***************************************************************************)
MemberCall(op, pc, user, target, event_id, event, result) ==
    [op |-> op, pc |-> pc, user |-> user, target |-> target, event_id |-> event_id,
     event |-> event, result |-> result]
Running == {q \in Procs : tasks[q].pc \notin {"idle", "done"}}
MembershipWritten(op) ==
    IF op = "join_room" THEN "join" ELSE IF op = "leave_room" THEN "leave" ELSE "invite"

\* a client calls join_room(user, LocalRoom), leave_room(user, LocalRoom) or
\* invite_user(user, target, LocalRoom)
member_call(p, op, user, target) ==
    /\ tasks[p].pc \in {"idle", "done"}
    /\ Created + Cardinality(Running) < MaxLocalEvents
    /\ SetCall(p, MemberCall(op, IF op = "join_room" THEN "get_room_by_id"
                                 ELSE "get_room_membership",
                             user, target, None, {}, None))
    /\ UNCHANGED <<store, fwd, current_state, client>>

\* join_room: await get_room_by_id, ValueError when the room is unknown
member_get_room_by_id(p) ==
    /\ AtPc(p, "get_room_by_id")
    /\ SetCall(p, IF GetRoomById(LocalRoom) = {}
                  THEN [tasks[p] EXCEPT !.pc = "done", !.result = Error]
                  ELSE [tasks[p] EXCEPT !.pc = "get_room_membership"])
    /\ UNCHANGED <<store, fwd, current_state, client>>

\* await get_room_membership(user, room): join_room returns when it is join,
\* leave_room and invite_user raise when it is not
member_get_room_membership(p) ==
    /\ AtPc(p, "get_room_membership")
    /\ \E joined \in {GetRoomMembership(tasks[p].user, LocalRoom) = "join"} :
          SetCall(p, IF tasks[p].op = "join_room"
                     THEN IF joined
                          THEN [tasks[p] EXCEPT !.pc = "done", !.result = LocalRoom]
                          ELSE [tasks[p] EXCEPT !.pc = "create_event"]
                     ELSE IF ~joined
                     THEN [tasks[p] EXCEPT !.pc = "done", !.result = Error]
                     ELSE IF tasks[p].op = "leave_room"
                     THEN [tasks[p] EXCEPT !.pc = "create_event"]
                     ELSE [tasks[p] EXCEPT !.pc = "get_invitee_membership"])
    /\ UNCHANGED <<store, fwd, current_state, client>>

\* invite_user: await get_room_membership(invitee, room), ValueError when join
member_get_invitee_membership(p) ==
    /\ AtPc(p, "get_invitee_membership")
    /\ SetCall(p, IF GetRoomMembership(tasks[p].target, LocalRoom) = "join"
                  THEN [tasks[p] EXCEPT !.pc = "done", !.result = Error]
                  ELSE [tasks[p] EXCEPT !.pc = "create_event"])
    /\ UNCHANGED <<store, fwd, current_state, client>>

\* await _create_member_event / event_builder.create_event
member_create_event(p) ==
    /\ AtPc(p, "create_event")
    /\ FreshEventIds # {}
    /\ \E id \in {CHOOSE i \in FreshEventIds : \A x \in FreshEventIds : IdRank(i) <= IdRank(x)} :
          SetCall(p, [tasks[p] EXCEPT
                  !.pc = "store_event",
                  !.event_id = id,
                  !.event = {CreateEvent(id, LocalRoom, tasks[p].user, "m.room.member",
                                         tasks[p].target,
                                         Member(MembershipWritten(tasks[p].op)))}])
    /\ UNCHANGED <<store, fwd, current_state, client>>

\* await store_event, then return
member_store_event(p) ==
    /\ AtPc(p, "store_event")
    /\ \E new \in {StoreEvent(DB, CHOOSE e \in tasks[p].event : TRUE)} : Commit(new)
    /\ SetCall(p, [tasks[p] EXCEPT !.pc = "done", !.result = LocalRoom])
    /\ UNCHANGED client

NextMember ==
    \/ \E p \in Procs, u \in LocalUsers, op \in {"join_room", "leave_room"} :
          member_call(p, op, u, u)
    \/ \E p \in Procs, u \in LocalUsers, v \in LocalUsers :
          u # v /\ member_call(p, "invite_user", u, v)
    \/ \E p \in Procs : member_get_room_by_id(p)
    \/ \E p \in Procs : member_get_room_membership(p)
    \/ \E p \in Procs : member_get_invitee_membership(p)
    \/ \E p \in Procs : member_create_event(p)
    \/ \E p \in Procs : member_store_event(p)

SpecMember == InitLocal /\ [][NextMember]_vars

\* C40: membership events respect the current membership under any sequence
\* or interleaving of calls: a join event is stored only when the user's
\* membership is not already join, a leave event only when it is join, an
\* invite only when the inviter is joined and the invitee is not, so that no
\* stored join or leave event of a user comes on top of a history in which
\* the user's membership is already the one it sets.
C40_MembershipRespected ==
    /\ [][\A e \in store' \ store :
             (e.type = "m.room.member" /\ e.room_id = LocalRoom)
             => /\ e.content.membership = "join"
                    => GetRoomMembership(e.state_key, LocalRoom) # "join"
                /\ e.content.membership = "leave"
                    => GetRoomMembership(e.state_key, LocalRoom) = "join"
                /\ e.content.membership = "invite"
                    => /\ GetRoomMembership(e.sender, LocalRoom) = "join"
                       /\ GetRoomMembership(e.state_key, LocalRoom) # "join"]_vars
    /\ [](\A e \in store :
             (/\ e.type = "m.room.member" /\ e.room_id = LocalRoom
              /\ e.content.membership \in {"join", "leave"}
              /\ e.prev_events # {})
             => MembershipOf(StateAtParents(store, e), store, e.state_key)
                    # e.content.membership)

====
